---- MODULE Spec2Model ----
(***************************************************************************)
(* Model of cultura2.py: the survey table, its cleaning                    *)
(* (limpiar_datos_categoricos), the derivation of the expansion weight,    *)
(* the age and income groups, the SI/NO companions and the cultural index  *)
(* (load_and_process_data), the weighted figures of the executive summary  *)
(* page and the association matrix (cramers_v).                            *)
(*                                                                         *)
(* A table is a record [nrows, columns]; columns is the ordered sequence   *)
(* of [name, dtype, cells]; a cell is a number, a text or missing (NaN).   *)
(* Numbers are integers; thresholds that the code writes as fractions are  *)
(* compared after multiplying both sides by the denominator.               *)
(***************************************************************************)
EXTENDS Integers, Sequences, FiniteSets, TLC

VARIABLES pc, data, df, msgs, umbral_na, df_limpio, info_limpieza, vista

vars == <<pc, data, df, msgs, umbral_na, df_limpio, info_limpieza, vista>>

(***************************************************************************)
(* Bounds of the model.                                                    *)
(***************************************************************************)
\* rows of the tables whose cells are enumerated freely
NRows == 2
\* rows of the tables of the income family (the code asks for more than 10 values)
IncomeRows == 12

(***************************************************************************)
(* Cells, columns, tables.                                                 *)
(***************************************************************************)
Num(n) == [k |-> "num", n |-> n, s |-> ""]
Str(s) == [k |-> "str", n |-> 0, s |-> s]
NA == [k |-> "na", n |-> 0, s |-> ""]

isnull(c) == c.k = "na"

Column(name, dtype, cells) == [name |-> name, dtype |-> dtype, cells |-> cells]

DataFrame(nrows, columns) == [nrows |-> nrows, columns |-> columns]

\* pd.DataFrame(): no rows, no columns
EmptyDataFrame == DataFrame(0, <<>>)

\* df.empty: some axis has length 0
IsEmpty(t) == t.nrows = 0 \/ Len(t.columns) = 0

ColumnNames(t) == {t.columns[i].name : i \in DOMAIN t.columns}

HasColumn(t, name) == name \in ColumnNames(t)

GetColumn(t, name) ==
    t.columns[CHOOSE i \in DOMAIN t.columns : t.columns[i].name = name]

\* df[name] = cells: replaces the column in place, or appends a new one
SetColumn(t, name, dtype, cells) ==
    IF HasColumn(t, name)
    THEN [t EXCEPT !.columns =
            [i \in DOMAIN t.columns |->
                IF t.columns[i].name = name
                THEN Column(name, dtype, cells) ELSE t.columns[i]]]
    ELSE [t EXCEPT !.columns = Append(t.columns, Column(name, dtype, cells))]

\* the dtype pandas infers when it reads a column: float64 unless a cell is text
InferDtype(cells) ==
    IF \A i \in DOMAIN cells : cells[i].k \in {"num", "na"}
    THEN "number" ELSE "object"

ReadColumn(name, cells) == Column(name, InferDtype(cells), cells)

\* Series.isnull().sum()
CountNull(cells) == Cardinality({i \in DOMAIN cells : isnull(cells[i])})

\* Series.fillna(v)
fillna(cells, v) == [i \in DOMAIN cells |-> IF isnull(cells[i]) THEN v ELSE cells[i]]

(***************************************************************************)
(* pd.to_numeric(errors='coerce'): a number stays, a text that spells a    *)
(* number becomes that number, any other text becomes missing.             *)
(***************************************************************************)
NumericTexts == {"-3", "0", "2", "25"}

TextValue(s) ==
    CASE s = "-3" -> -3
      [] s = "0" -> 0
      [] s = "2" -> 2
      [] s = "25" -> 25

ToNumericCell(c) ==
    IF c.k = "str"
    THEN IF c.s \in NumericTexts THEN Num(TextValue(c.s)) ELSE NA
    ELSE c

to_numeric(cells) == [i \in DOMAIN cells |-> ToNumericCell(cells[i])]

(***************************************************************************)
(* Messages shown to the user (st.warning, st.success, st.error, st.info). *)
(***************************************************************************)
Msg(tipo, clave, n) == [tipo |-> tipo, clave |-> clave, n |-> n]

HasMsg(ms, clave) == \E i \in DOMAIN ms : ms[i].clave = clave

\* the count a message reports, 0 when the message was not emitted
MsgCount(ms, clave) ==
    IF HasMsg(ms, clave)
    THEN ms[CHOOSE i \in DOMAIN ms : ms[i].clave = clave].n
    ELSE 0

(***************************************************************************)
(* load_and_process_data, step 1: the expansion weight.                    *)
(***************************************************************************)
FACTOR == "FACTOR DE EXPANSION"

\* df['FACTOR DE EXPANSION'] <= 0 (False on NaN)
NonPositiveStrict(c) == c.k = "num" /\ c.n < 0
NonPositive(c) == c.k = "num" /\ c.n <= 0

\* df['FACTOR DE EXPANSION'].fillna(1, inplace=True)
FillFactorZero(cells) == fillna(cells, Num(0))
FillFactor(cells) == fillna(cells, Num(1))

\* df.loc[df['FACTOR DE EXPANSION'] <= 0, 'FACTOR DE EXPANSION'] = 1
CountNonPositive(cells) == Cardinality({i \in DOMAIN cells : NonPositive(cells[i])})

RepairNonPositive(cells) ==
    [i \in DOMAIN cells |-> IF NonPositive(cells[i]) THEN Num(1) ELSE cells[i]]

ValidarFactor(t) ==
    IF HasColumn(t, FACTOR)
    THEN LET coerced == to_numeric(GetColumn(t, FACTOR).cells)
             valores_nulos == CountNull(coerced)
             filled == IF valores_nulos > 0 THEN FillFactor(coerced) ELSE coerced
             valores_invalidos == CountNonPositive(filled)
             repaired == IF valores_invalidos > 0
                         THEN RepairNonPositive(filled) ELSE filled
         IN  [df |-> SetColumn(t, FACTOR, "number", repaired),
              msgs |-> (IF valores_nulos > 0
                        THEN <<Msg("warning", "factor_no_validos", valores_nulos)>>
                        ELSE <<>>)
                       \o
                       (IF valores_invalidos > 0
                        THEN <<Msg("warning", "factor_no_positivos", valores_invalidos)>>
                        ELSE <<>>)]
    ELSE [df |-> SetColumn(t, FACTOR, "number", [i \in 1..t.nrows |-> Num(1)]),
          msgs |-> <<Msg("warning", "factor_asumido_1", 0)>>]

(***************************************************************************)
(* pd.cut and pd.qcut.  Bin edges are finite numbers or +-infinity.        *)
(***************************************************************************)
Fin(v) == [inf |-> 0, v |-> v]
NegInf == [inf |-> -1, v |-> 0]
PosInf == [inf |-> 1, v |-> 0]

Less(a, b) == a.inf < b.inf \/ (a.inf = 0 /\ b.inf = 0 /\ a.v < b.v)

\* bins.searchsorted(x, side='left'): the number of edges strictly below x
searchsorted_left(bins, x) == Cardinality({i \in DOMAIN bins : Less(bins[i], x)})

\* bins.searchsorted(x, side='right'): the number of edges below or equal to x
searchsorted_right(bins, x) == Cardinality({i \in DOMAIN bins : ~Less(x, bins[i])})

\* the edges hold a repeated value ("Bin edges must be unique")
HasDuplicates(bins) == \E i, j \in DOMAIN bins : i < j /\ bins[i] = bins[j]

\* pd.cut(x, bins, labels, right, include_lowest) on one finite value x:
\* the label of the bin of x, missing when x lies outside the edges
cut(bins, labels, x, right, include_lowest) ==
    LET side == IF right THEN searchsorted_left(bins, x)
                ELSE searchsorted_right(bins, x)
        id == IF include_lowest /\ x = bins[1] THEN 1 ELSE side
    IN  IF id = 0 \/ id = Len(bins) THEN NA ELSE Str(labels[id])

(***************************************************************************)
(* load_and_process_data, step 2: the age groups.                          *)
(***************************************************************************)
EdadBins == <<Fin(0), Fin(12), Fin(18), Fin(28), Fin(40), Fin(60), Fin(100)>>

EdadLabels == <<"Niñez (0-12)", "Adolescencia (13-18)", "Juventud (19-28)",
                "Adultez temprana (29-40)", "Adultez media (41-60)",
                "Adulto mayor (60+)">>

\* pd.cut(df['EDAD'], bins, labels, include_lowest=True) on one cell of EDAD
grupo_edad_left(c) ==
    IF c.k = "num" THEN cut(EdadBins, EdadLabels, Fin(c.n), FALSE, TRUE) ELSE NA
grupo_edad(c) ==
    IF c.k = "num" THEN cut(EdadBins, EdadLabels, Fin(c.n), TRUE, TRUE) ELSE NA

GruposEdad(t) ==
    IF HasColumn(t, "EDAD")
    THEN LET edad == to_numeric(GetColumn(t, "EDAD").cells)
             t1 == SetColumn(t, "EDAD", "number", edad)
         IN  SetColumn(t1, "grupo_edad", "category",
                       [i \in DOMAIN edad |-> grupo_edad(edad[i])])
    ELSE t

(***************************************************************************)
(* load_and_process_data, step 3: the income groups.                       *)
(***************************************************************************)
IngresoLabels == <<"Bajo", "Medio-Bajo", "Medio-Alto", "Alto">>

\* the non-missing values of a numeric column, in row order (dropna)
RECURSIVE dropna(_)
dropna(cells) ==
    IF cells = <<>> THEN <<>>
    ELSE IF isnull(Head(cells)) THEN dropna(Tail(cells))
         ELSE <<Head(cells).n>> \o dropna(Tail(cells))

\* the k-th smallest of a sequence of numbers, k in 1..Len
KthSmallest(vals, k) ==
    CHOOSE v \in {vals[i] : i \in DOMAIN vals} :
        /\ Cardinality({i \in DOMAIN vals : vals[i] < v}) < k
        /\ Cardinality({i \in DOMAIN vals : vals[i] <= v}) >= k

\* four times the quantile j/4 of vals, by linear interpolation between the
\* two order statistics around position (n-1)*j/4  (Series.quantile, np.percentile)
Quantile4(vals, j) ==
    LET n == Len(vals)
        pos4 == (n - 1) * j
        lo == pos4 \div 4
        r == pos4 % 4
        xlo == KthSmallest(vals, lo + 1)
        xhi == KthSmallest(vals, IF lo + 2 <= n THEN lo + 2 ELSE n)
    IN  4 * xlo + r * (xhi - xlo)

\* the edges of pd.qcut(q=4): the quantiles 0, 1/4, 1/2, 3/4, 1 (times 4)
QcutBins(vals) == [j \in 1..5 |-> Fin(Quantile4(vals, j - 1))]

\* the edges of the fallback: [-inf] + percentiles 25, 50, 75 + [inf] (times 4)
PercentileBins(vals) ==
    <<NegInf, Fin(Quantile4(vals, 1)), Fin(Quantile4(vals, 2)),
      Fin(Quantile4(vals, 3)), PosInf>>

IngresoCell(bins, c) ==
    IF c.k = "num" THEN cut(bins, IngresoLabels, Fin(4 * c.n), TRUE, TRUE) ELSE NA

\* len(valid_incomes) > 10
MinIncomeValues == 10
EnoughIncomesAny(n) == n > 0
EnoughIncomes(n) == n > MinIncomeValues

\* the result is [raised, df]: raised when the fallback pd.cut raises ValueError
\* inside the except clause, which only the function's outer handler catches
GruposIngreso(t) ==
    IF HasColumn(t, "P2")
    THEN LET p2 == to_numeric(GetColumn(t, "P2").cells)
             t1 == SetColumn(t, "P2", "number", p2)
             valid_incomes == dropna(p2)
         IN  IF Len(valid_incomes) > 0 /\ EnoughIncomes(Len(valid_incomes))
             THEN IF ~HasDuplicates(QcutBins(valid_incomes))
                  THEN [raised |-> FALSE,
                        df |-> SetColumn(t1, "grupo_ingreso", "category",
                                 [i \in DOMAIN p2 |->
                                    IngresoCell(QcutBins(valid_incomes), p2[i])])]
                  ELSE IF ~HasDuplicates(PercentileBins(valid_incomes))
                       THEN [raised |-> FALSE,
                             df |-> SetColumn(t1, "grupo_ingreso", "category",
                                      [i \in DOMAIN p2 |->
                                         IngresoCell(PercentileBins(valid_incomes), p2[i])])]
                       ELSE [raised |-> TRUE, df |-> t1]
             ELSE [raised |-> FALSE, df |-> t1]
    ELSE [raised |-> FALSE, df |-> t]

(***************************************************************************)
(* load_and_process_data, step 4: the SI/NO companions.                    *)
(***************************************************************************)
\* str.strip().str.upper() on the texts of the model
StripUpper(s) ==
    CASE s \in {"SI", "si", " Si "} -> "SI"
      [] s \in {"SÍ", "sí"} -> "SÍ"
      [] s \in {"NO", "no "} -> "NO"
      [] OTHER -> s

\* astype(str).str.strip().str.upper() on one cell: a number gives its digits,
\* which are no answer; a missing cell gives "NAN"
AsUpperText(c) ==
    CASE c.k = "str" -> StripUpper(c.s)
      [] c.k = "num" -> "<number>"
      [] OTHER -> "NAN"

\* f'{col.lower().replace(" ", "_")}_num' on the column names of the model
NumName(col) ==
    CASE col = "P3" -> "p3_num"
      [] col = "P4" -> "p4_num"
      [] col = "P5" -> "p5_num"
      [] col = "ASISTENCIA BIBLIOTECA" -> "asistencia_biblioteca_num"
      [] col = "ASISTENCIA CASAS DE CULTURA" -> "asistencia_casas_de_cultura_num"
      [] col = "ASISTENCIA CENTROS CUTURALES" -> "asistencia_centros_cuturales_num"
      [] col = "ASISTENCIA MUSEOS" -> "asistencia_museos_num"
      [] col = "ASISTENCIA EXPOSICIONES" -> "asistencia_exposiciones_num"
      [] col = "ASISTENCIA MONUMENTOS" -> "asistencia_monumentos_num"
      [] col = "ASISTENCIA CURSOS" -> "asistencia_cursos_num"
      [] col = "PRACTICA CULTURAL" -> "practica_cultural_num"
      [] col = "LECTURA LIBROS" -> "lectura_libros_num"
      [] col = "SEXO" -> "sexo_num"
      [] col = "ETNIA" -> "etnia_num"
      [] col = "NIVEL EDUCATIVO" -> "nivel_educativo_num"
      [] col = "EDAD" -> "edad_num"
      [] col = "P2" -> "p2_num"
      [] col = "FACTOR DE EXPANSION" -> "factor_de_expansion_num"
      [] OTHER -> "otra_num"

\* unique_vals.issubset({'SI', 'NO', 'SÍ'}) over the non-missing cells
EsSiNo(cells) ==
    \A i \in DOMAIN cells :
        ~isnull(cells[i]) => AsUpperText(cells[i]) \in {"SI", "NO", "SÍ"}

\* .map({'SI': 1, 'NO': 0}) then fillna(0).astype(int)
SiNoValueSinTilde(c) == IF AsUpperText(c) = "SI" THEN Num(1) ELSE Num(0)

\* .map({'SI': 1, 'SÍ': 1, 'NO': 0}) then fillna(0).astype(int)
SiNoValue(c) ==
    LET u == AsUpperText(c)
    IN  IF u \in {"SI", "SÍ"} THEN Num(1) ELSE Num(0)

\* the loop over the columns the table had when the loop began, from index i
RECURSIVE ConvertirDesde(_, _, _)
ConvertirDesde(t, cols, i) ==
    IF i > Len(cols) THEN [df |-> t, convertidas |-> 0]
    ELSE LET c == cols[i]
         IN  IF c.dtype = "object" /\ EsSiNo(c.cells)
             THEN LET rest == ConvertirDesde(
                                SetColumn(t, NumName(c.name), "number",
                                          [j \in DOMAIN c.cells |-> SiNoValue(c.cells[j])]),
                                cols, i + 1)
                  IN  [df |-> rest.df, convertidas |-> rest.convertidas + 1]
             ELSE ConvertirDesde(t, cols, i + 1)

ConvertirSiNo(t) ==
    LET r == ConvertirDesde(t, t.columns, 1)
    IN  [df |-> r.df,
         msgs |-> IF r.convertidas > 0
                  THEN <<Msg("success", "convertidas_si_no", r.convertidas)>>
                  ELSE <<>>]

(***************************************************************************)
(* load_and_process_data, step 5: the cultural index and its level.        *)
(***************************************************************************)
cultural_vars_base ==
    <<"P3", "P4", "P5", "ASISTENCIA BIBLIOTECA", "ASISTENCIA CASAS DE CULTURA",
      "ASISTENCIA CENTROS CUTURALES", "ASISTENCIA MUSEOS", "ASISTENCIA EXPOSICIONES",
      "ASISTENCIA MONUMENTOS", "ASISTENCIA CURSOS", "PRACTICA CULTURAL",
      "LECTURA LIBROS">>

\* the columns summed into the index, the SI/NO companions left out
RECURSIVE CulturalVarsSoloNumericas(_, _)
CulturalVarsSoloNumericas(t, i) ==
    IF i > Len(cultural_vars_base) THEN <<>>
    ELSE LET var == cultural_vars_base[i]
             rest == CulturalVarsSoloNumericas(t, i + 1)
         IN  IF HasColumn(t, var) /\ GetColumn(t, var).dtype = "number"
             THEN <<var>> \o rest
             ELSE rest

\* the columns summed into the index: the field itself when it is numeric,
\* else its SI/NO companion when that exists
RECURSIVE CulturalVarsNumeric(_, _)
CulturalVarsNumeric(t, i) ==
    IF i > Len(cultural_vars_base) THEN <<>>
    ELSE LET var == cultural_vars_base[i]
             rest == CulturalVarsNumeric(t, i + 1)
         IN  IF HasColumn(t, var)
             THEN IF GetColumn(t, var).dtype = "number"
                  THEN <<var>> \o rest
                  ELSE IF HasColumn(t, NumName(var))
                       THEN <<NumName(var)>> \o rest
                       ELSE rest
             ELSE rest

\* df[col] = pd.to_numeric(df[col], errors='coerce').fillna(0) for each col
RECURSIVE FillCulturalVars(_, _, _)
FillCulturalVars(t, names, i) ==
    IF i > Len(names) THEN t
    ELSE FillCulturalVars(
            SetColumn(t, names[i], "number",
                      fillna(to_numeric(GetColumn(t, names[i]).cells), Num(0))),
            names, i + 1)

RECURSIVE SumRow(_, _, _, _)
SumRow(t, names, row, i) ==
    IF i > Len(names) THEN 0
    ELSE GetColumn(t, names[i]).cells[row].n + SumRow(t, names, row, i + 1)

NivelLabels == <<"Bajo", "Medio", "Alto">>

\* pd.cut(indice, bins=[-0.1, max/3, 2*max/3, max], include_lowest=True);
\* the index and the edges are multiplied by 30
NivelTercios(x, max_possible) ==
    cut(<<Fin(-3), Fin(10 * max_possible), Fin(20 * max_possible), Fin(30 * max_possible)>>,
        NivelLabels, Fin(30 * x), TRUE, TRUE)

\* 'Alto' if x >= max*0.7 else ('Medio' if x >= max*0.3 else 'Bajo')
NivelFijo(x, max_possible) ==
    IF 10 * x >= 7 * max_possible THEN Str("Alto")
    ELSE IF 10 * x >= 3 * max_possible THEN Str("Medio")
         ELSE Str("Bajo")

\* if max_possible >= 3
TercilesMin == 3

NivelParticipacion(x, max_possible) ==
    IF max_possible >= TercilesMin
    THEN NivelTercios(x, max_possible)
    ELSE NivelFijo(x, max_possible)

\* df['nivel_participacion'] = 'Sin datos'
SinDatosBajo == "Bajo"
SinDatos == "Sin datos"

IndiceCultural(t) ==
    LET cultural_vars_numeric == CulturalVarsNumeric(t, 1)
    IN  IF cultural_vars_numeric # <<>>
        THEN LET t1 == FillCulturalVars(t, cultural_vars_numeric, 1)
                 indice == [r \in 1..t.nrows |-> SumRow(t1, cultural_vars_numeric, r, 1)]
                 max_possible == Len(cultural_vars_numeric)
                 t2 == SetColumn(t1, "indice_cultural", "number",
                                 [r \in 1..t.nrows |-> Num(indice[r])])
             IN  [df |-> SetColumn(t2, "nivel_participacion",
                                   IF max_possible >= TercilesMin
                                   THEN "category" ELSE "object",
                                   [r \in 1..t.nrows |->
                                       NivelParticipacion(indice[r], max_possible)]),
                  msgs |-> <<Msg("success", "indice_creado", max_possible)>>]
        ELSE [df |-> SetColumn(
                       SetColumn(t, "indice_cultural", "number",
                                 [r \in 1..t.nrows |-> Num(0)]),
                       "nivel_participacion", "object",
                       [r \in 1..t.nrows |-> Str(SinDatos)]),
              msgs |-> <<>>]

(***************************************************************************)
(* load_and_process_data, step 6: the represented population.              *)
(***************************************************************************)
RECURSIVE SumCells(_)
SumCells(cells) ==
    IF cells = <<>> THEN 0
    ELSE (IF Head(cells).k = "num" THEN Head(cells).n ELSE 0) + SumCells(Tail(cells))

PoblacionRepresentada(t) ==
    [df |-> SetColumn(t, "poblacion_representada", "number", GetColumn(t, FACTOR).cells),
     msgs |-> <<Msg("success", "poblacion_total", SumCells(GetColumn(t, FACTOR).cells))>>]

(***************************************************************************)
(* load_and_process_data as a whole: the returned table and the messages.  *)
(* A missing file and any exception of a step end in an error message and  *)
(* an empty table.                                                         *)
(***************************************************************************)
load_and_process_data(file) ==
    IF ~file.found
    THEN [df |-> EmptyDataFrame,
          msgs |-> <<Msg("info", "cargando", 0), Msg("error", "archivo_no_encontrado", 0)>>]
    ELSE LET s1 == ValidarFactor(file.table)
             s2 == GruposEdad(s1.df)
             s3 == GruposIngreso(s2)
             s4 == ConvertirSiNo(s3.df)
             s5 == IndiceCultural(s4.df)
             s6 == PoblacionRepresentada(s5.df)
         IN  IF s3.raised
             THEN [df |-> EmptyDataFrame,
                   msgs |-> <<Msg("info", "cargando", 0)>> \o s1.msgs
                            \o <<Msg("error", "error_al_cargar", 0)>>]
             ELSE [df |-> s6.df,
                   msgs |-> <<Msg("info", "cargando", 0)>> \o s1.msgs \o s4.msgs
                            \o s5.msgs \o s6.msgs]

(***************************************************************************)
(* limpiar_datos_categoricos(df, umbral_na).  The threshold is held in      *)
(* percent (umbral_na * 100), the percentage of missing cells of a column  *)
(* is na / len(df) * 100.                                                  *)
(***************************************************************************)
SENTINEL == "NO INFORMACION"

\* porcentaje_na > umbral_na * 100, with porcentaje_na = na / n * 100 (NaN when n = 0)
ExcesoNAIncl(na, n, umbral) == n > 0 /\ na * 100 >= umbral * n
ExcesoNA(na, n, umbral) == n > 0 /\ na * 100 > umbral * n

\* the names of the columns to drop, last column first
RECURSIVE ColumnasAEliminarInv(_, _, _)
ColumnasAEliminarInv(t, umbral, i) ==
    IF i > Len(t.columns) THEN <<>>
    ELSE ColumnasAEliminarInv(t, umbral, i + 1)
         \o (IF ExcesoNA(CountNull(t.columns[i].cells), t.nrows, umbral)
             THEN <<t.columns[i].name>> ELSE <<>>)

\* the names of the columns to drop, in column order
RECURSIVE ColumnasAEliminar(_, _, _)
ColumnasAEliminar(t, umbral, i) ==
    IF i > Len(t.columns) THEN <<>>
    ELSE (IF ExcesoNA(CountNull(t.columns[i].cells), t.nrows, umbral)
          THEN <<t.columns[i].name>> ELSE <<>>)
         \o ColumnasAEliminar(t, umbral, i + 1)

SeqToSet(q) == {q[i] : i \in DOMAIN q}

\* df.drop(columns=names)
DropColumns(t, names) ==
    LET keep(c) == c.name \notin SeqToSet(names)
    IN  [t EXCEPT !.columns = SelectSeq(t.columns, keep)]

\* select_dtypes(include=['object'])
EsCategoricaObject(c) == c.dtype = "object"

\* select_dtypes(include=['object', 'category'])
EsCategorica(c) == c.dtype \in {"object", "category"}

\* the loop of step 2 decides per column: categorical with a missing cell
SeImputaTodo(c) == CountNull(c.cells) > 0
SeImputa(c) == EsCategorica(c) /\ CountNull(c.cells) > 0

\* df_limpio[col] = df_limpio[col].fillna("NO INFORMACION")
ImputarSinAsignar(c) == c
ImputarColumna(c) ==
    IF SeImputa(c) THEN [c EXCEPT !.cells = fillna(c.cells, Str(SENTINEL))] ELSE c

RECURSIVE ColumnasImputadas(_, _)
ColumnasImputadas(t, i) ==
    IF i > Len(t.columns) THEN <<>>
    ELSE (IF SeImputa(t.columns[i]) THEN <<t.columns[i].name>> ELSE <<>>)
         \o ColumnasImputadas(t, i + 1)

Shape(t) == <<t.nrows, Len(t.columns)>>

\* the returned pair (df_limpio, info_limpieza)
limpiar_datos_categoricos(t, umbral) ==
    LET columnas_a_eliminar == ColumnasAEliminar(t, umbral, 1)
        t1 == IF columnas_a_eliminar # <<>> THEN DropColumns(t, columnas_a_eliminar) ELSE t
        imputadas == ColumnasImputadas(t1, 1)
        t2 == [t1 EXCEPT !.columns = [i \in DOMAIN t1.columns |-> ImputarColumna(t1.columns[i])]]
    IN  [df_limpio |-> t2,
         info_limpieza |->
            [forma_original |-> Shape(t),
             columnas_eliminadas |-> columnas_a_eliminar,
             columnas_imputadas_categoricas |-> imputadas,
             observaciones |->
                (IF columnas_a_eliminar # <<>>
                 THEN <<Msg("obs", "eliminadas", Len(columnas_a_eliminar))>> ELSE <<>>)
                \o <<Msg("obs", "imputadas", Len(imputadas))>>,
             forma_final |-> Shape(t2)]]

NoInfo ==
    [forma_original |-> <<0, 0>>, columnas_eliminadas |-> <<>>,
     columnas_imputadas_categoricas |-> <<>>, observaciones |-> <<>>,
     forma_final |-> <<0, 0>>]

(***************************************************************************)
(* The input tables of the model: what pd.read_excel('cultura.xlsx') may   *)
(* return.  Each family varies the columns one derivation step reads.      *)
(***************************************************************************)
Cols(cells) == [1..NRows -> cells]

WeightCells == {NA, Str("abc"), Str("-3"), Str("2"), Num(-1), Num(0), Num(3)}

SexoColumn == ReadColumn("SEXO", [i \in 1..NRows |-> Str("Mujer")])

WeightTables ==
    {DataFrame(NRows, <<SexoColumn>>)}
    \cup {DataFrame(NRows, <<SexoColumn, ReadColumn(FACTOR, w)>>) : w \in Cols(WeightCells)}

AgeCells ==
    {NA, Str("abc"), Str("25"), Num(-1), Num(0), Num(10), Num(12), Num(13), Num(18),
     Num(28), Num(40), Num(45), Num(60), Num(70), Num(100), Num(101)}

AgeTables == {DataFrame(NRows, <<ReadColumn("EDAD", e)>>) : e \in Cols(AgeCells)}

\* a P2 column of IncomeRows rows: a times 10, b times 20, c times 30, the rest missing
IncomeColumn(a, b, c) ==
    [i \in 1..IncomeRows |->
        IF i <= a THEN Num(10)
        ELSE IF i <= a + b THEN Num(20)
        ELSE IF i <= a + b + c THEN Num(30)
        ELSE NA]

IncomeTables ==
    {DataFrame(IncomeRows, <<ReadColumn("P2", IncomeColumn(a, b, c))>>) :
        <<a, b, c>> \in {x \in (0..IncomeRows) \X (0..IncomeRows) \X (0..IncomeRows) :
                            x[1] + x[2] + x[3] <= IncomeRows}}

\* the columns of a table in the order given, the absent ones (<<>>) left out
RECURSIVE Present(_)
Present(cols) ==
    IF cols = <<>> THEN <<>>
    ELSE (IF Head(cols).cells = <<>> THEN <<>> ELSE <<Head(cols)>>) \o Present(Tail(cols))

OrAbsent(S) == S \cup {<<>>}

\* three indicator fields, two of them numeric
IndicatorTablesA ==
    {DataFrame(NRows, Present(<<ReadColumn("P3", p3), ReadColumn("P4", p4),
                                ReadColumn("ASISTENCIA BIBLIOTECA", ab)>>)) :
        p3 \in OrAbsent(Cols({NA, Num(1), Num(2)})),
        p4 \in OrAbsent(Cols({Num(-1), Num(0), Num(1)})),
        ab \in OrAbsent(Cols({Str("SI"), Str("NO")}))}

\* two indicator fields holding text
IndicatorTablesB ==
    {DataFrame(NRows, Present(<<ReadColumn("ASISTENCIA MUSEOS", am),
                                ReadColumn("LECTURA LIBROS", ll)>>)) :
        am \in OrAbsent(Cols({NA, Str("SI"), Str("no "), Str("sí"), Str("NS")})),
        ll \in OrAbsent(Cols({NA, Str("SÍ"), Str("NO"), Num(1)}))}

NoFile == [found |-> FALSE, table |-> EmptyDataFrame]

LoadInputs ==
    {NoFile}
    \cup {[found |-> TRUE, table |-> t] :
            t \in WeightTables \cup AgeTables \cup IncomeTables
                  \cup IndicatorTablesA \cup IndicatorTablesB}

(***************************************************************************)
(* The program: the script loads the table, stops when it is empty, else   *)
(* shows the selected page.                                                *)
(***************************************************************************)
UmbralDefault == 30

\* what the selected page has computed; nothing before a page runs
NoVista == [pagina |-> "ninguna"]

InitLoad ==
    /\ pc = "inicio"
    /\ data \in LoadInputs
    /\ df = EmptyDataFrame
    /\ msgs = <<>>
    /\ umbral_na = UmbralDefault
    /\ df_limpio = EmptyDataFrame
    /\ info_limpieza = NoInfo
    /\ vista = NoVista

\* df = load_and_process_data()
Cargar ==
    /\ pc = "inicio"
    /\ LET r == load_and_process_data(data)
       IN  /\ df' = r.df
           /\ msgs' = r.msgs
    /\ pc' = "cargado"
    /\ UNCHANGED <<data, umbral_na, df_limpio, info_limpieza, vista>>

\* if df.empty: st.error(...); st.stop()
Detener ==
    /\ pc = "cargado"
    /\ IsEmpty(df)
    /\ msgs' = Append(msgs, Msg("error", "no_se_pudieron_cargar", 0))
    /\ pc' = "detenido"
    /\ UNCHANGED <<data, df, umbral_na, df_limpio, info_limpieza, vista>>

\* the script goes on to the selected page
MostrarPagina ==
    /\ pc = "cargado"
    /\ ~IsEmpty(df)
    /\ pc' = "pagina"
    /\ UNCHANGED <<data, df, msgs, umbral_na, df_limpio, info_limpieza, vista>>

NextLoad == Cargar \/ Detener \/ MostrarPagina

SpecLoad == InitLoad /\ [][NextLoad]_vars

(***************************************************************************)
(* limpiar_datos_categoricos as a function of any table and threshold: the *)
(* button of the cleaning page applies it to the table of the page.        *)
(***************************************************************************)
CleanTables ==
    {DataFrame(NRows, Present(<<Column("EDAD", "number", n), Column("SEXO", "object", o),
                                Column("grupo_edad", "category", g)>>)) :
        n \in OrAbsent(Cols({NA, Num(7)})),
        o \in OrAbsent(Cols({NA, Str("Mujer"), Num(1)})),
        g \in OrAbsent(Cols({NA, Str("Niñez (0-12)")}))}

\* umbral_na * 100
Umbrales == {0, 30, 50, 100}

InitClean ==
    /\ pc = "pagina"
    /\ data = NoFile
    /\ df \in CleanTables
    /\ msgs = <<>>
    /\ umbral_na = UmbralDefault
    /\ df_limpio = EmptyDataFrame
    /\ info_limpieza = NoInfo
    /\ vista = NoVista

\* the cleaning applied to the table of the page itself, without df.copy()
AplicarLimpiezaEnSitio ==
    /\ pc = "pagina"
    /\ \E u \in Umbrales :
        /\ umbral_na' = u
        /\ LET r == limpiar_datos_categoricos(df, u)
           IN  /\ df' = r.df_limpio
               /\ df_limpio' = r.df_limpio
               /\ info_limpieza' = r.info_limpieza
    /\ msgs' = Append(msgs, Msg("success", "limpieza_completada", 0))
    /\ pc' = "limpio"
    /\ UNCHANGED <<data, vista>>

\* df_cleaned, info_limpieza = limpiar_datos_categoricos(df, umbral_na=umbral_na/100)
AplicarLimpieza ==
    /\ pc = "pagina"
    /\ \E u \in Umbrales :
        /\ umbral_na' = u
        /\ LET r == limpiar_datos_categoricos(df, u)
           IN  /\ df_limpio' = r.df_limpio
               /\ info_limpieza' = r.info_limpieza
    /\ msgs' = Append(msgs, Msg("success", "limpieza_completada", 0))
    /\ pc' = "limpio"
    /\ UNCHANGED <<data, df, vista>>

NextClean == AplicarLimpieza

SpecClean == InitClean /\ [][NextClean]_vars

(***************************************************************************)
(* Properties of load_and_process_data (checked under SpecLoad).           *)
(***************************************************************************)
Loaded == pc # "inicio" /\ data.found

Cell(t, name, i) == GetColumn(t, name).cells[i]

\* C1: after load_and_process_data, whatever the weight column held (numbers,
\* texts, missing, zero, negative), every row of the returned table has a
\* FACTOR DE EXPANSION that is a number strictly greater than 0.
C1_WeightPositive ==
    pc # "inicio" =>
        \A i \in 1..df.nrows :
            /\ HasColumn(df, FACTOR)
            /\ Cell(df, FACTOR, i).k = "num"
            /\ Cell(df, FACTOR, i).n > 0

\* a loaded table whose input weights held a text, a zero and were repaired
C1_Witness ==
    /\ pc = "cargado"
    /\ data.found
    /\ HasColumn(data.table, FACTOR)
    /\ Cell(data.table, FACTOR, 1) = Str("abc")
    /\ Cell(data.table, FACTOR, 2) = Num(0)
    /\ df.nrows = data.table.nrows
    /\ Cell(df, FACTOR, 1) = Num(1)
    /\ Cell(df, FACTOR, 2) = Num(1)

\* C2: when the input has no FACTOR DE EXPANSION column, the returned table
\* holds every input row, with a FACTOR DE EXPANSION of 1 in each, and the
\* warning that 1 was assumed is emitted.
C2_AbsentWeightCreated ==
    (Loaded /\ ~HasColumn(data.table, FACTOR)) =>
        /\ HasMsg(msgs, "factor_asumido_1")
        /\ df.nrows = data.table.nrows
        /\ HasColumn(df, FACTOR)
        /\ \A i \in 1..df.nrows : Cell(df, FACTOR, i) = Num(1)

\* what the input held, read independently of the repair
OriginalMissing(c) == c.k = "na" \/ (c.k = "str" /\ c.s \notin NumericTexts)

OriginalNonPositive(c) ==
    \/ c.k = "num" /\ c.n <= 0
    \/ c.k = "str" /\ c.s \in NumericTexts /\ TextValue(c.s) <= 0

\* C3: the two repair counts are reported separately: the count of invalid
\* values is the number of rows whose weight was missing or not a number, the
\* count of non-positive values is the number of rows whose numeric weight
\* was <= 0, and no row is in both.
C3_RepairCountsDistinct ==
    (Loaded /\ HasColumn(data.table, FACTOR)) =>
        LET w == GetColumn(data.table, FACTOR).cells
            M == {i \in DOMAIN w : OriginalMissing(w[i])}
            P == {i \in DOMAIN w : OriginalNonPositive(w[i])}
        IN  /\ MsgCount(msgs, "factor_no_validos") = Cardinality(M)
            /\ MsgCount(msgs, "factor_no_positivos") = Cardinality(P)
            /\ M \cap P = {}
            /\ ~HasMsg(msgs, "factor_asumido_1")

\* both repairs happened in one load
C3_Witness ==
    /\ pc = "cargado"
    /\ data.found
    /\ HasColumn(data.table, FACTOR)
    /\ Cell(data.table, FACTOR, 1) = NA
    /\ Cell(data.table, FACTOR, 2) = Str("-3")
    /\ MsgCount(msgs, "factor_no_validos") = 1
    /\ MsgCount(msgs, "factor_no_positivos") = 1

\* the bucket of an age in [0, 100] when every bucket includes its left edge
LeftInclusiveBucket(a) ==
    IF a < 12 THEN "Niñez (0-12)"
    ELSE IF a < 18 THEN "Adolescencia (13-18)"
    ELSE IF a < 28 THEN "Juventud (19-28)"
    ELSE IF a < 40 THEN "Adultez temprana (29-40)"
    ELSE IF a < 60 THEN "Adultez media (41-60)"
    ELSE "Adulto mayor (60+)"

\* the bucket of an age in [0, 100] when every bucket includes its right edge
RightInclusiveBucket(a) ==
    IF a <= 12 THEN "Niñez (0-12)"
    ELSE IF a <= 18 THEN "Adolescencia (13-18)"
    ELSE IF a <= 28 THEN "Juventud (19-28)"
    ELSE IF a <= 40 THEN "Adultez temprana (29-40)"
    ELSE IF a <= 60 THEN "Adultez media (41-60)"
    ELSE "Adulto mayor (60+)"

\* the age a cell of the input spells, if any
InputAge(c) == ToNumericCell(c)

AgeInRange(c) == c.k = "num" /\ c.n >= 0 /\ c.n <= 100

\* the table came back with its rows and the input had an EDAD column
AgeGrouped == Loaded /\ HasColumn(data.table, "EDAD") /\ df.nrows = data.table.nrows

\* C7 as stated: every age in [0,100] gets the bucket that starts at or below
\* it (left-inclusive: 12, 18, 28, 40, 60 open a bucket); ages outside
\* [0,100], missing or not numeric get no bucket.
C7_LeftInclusive ==
    AgeGrouped =>
        \A i \in 1..df.nrows :
            /\ HasColumn(df, "grupo_edad")
            /\ LET a == InputAge(Cell(data.table, "EDAD", i))
               IN  Cell(df, "grupo_edad", i) =
                       IF AgeInRange(a) THEN Str(LeftInclusiveBucket(a.n)) ELSE NA

\* C7 amended: every age in [0,100] gets one of the six buckets with
\* right-inclusive binning (12, 18, 28, 40, 60 close a bucket, 0 is in the
\* first one); 10, 25, 45, 70 fall in Niñez, Juventud, Adultez media, Adulto
\* mayor; ages outside [0,100], missing or not numeric get no bucket.
C7_RightInclusive ==
    AgeGrouped =>
        \A i \in 1..df.nrows :
            /\ HasColumn(df, "grupo_edad")
            /\ LET a == InputAge(Cell(data.table, "EDAD", i))
                   g == Cell(df, "grupo_edad", i)
               IN  /\ g = IF AgeInRange(a) THEN Str(RightInclusiveBucket(a.n)) ELSE NA
                   /\ a = Num(10) => g = Str("Niñez (0-12)")
                   /\ a = Num(25) => g = Str("Juventud (19-28)")
                   /\ a = Num(45) => g = Str("Adultez media (41-60)")
                   /\ a = Num(70) => g = Str("Adulto mayor (60+)")

\* an age on an interior boundary, grouped with the bucket it closes
C7_Witness ==
    /\ pc = "cargado"
    /\ AgeGrouped
    /\ Cell(data.table, "EDAD", 1) = Num(12)
    /\ Cell(df, "grupo_edad", 1) = Str("Niñez (0-12)")
    /\ Cell(data.table, "EDAD", 2) = Str("25")
    /\ Cell(df, "grupo_edad", 2) = Str("Juventud (19-28)")

\* the number of cells of the input column that spell a number
ValidCount(cells) == Cardinality({i \in DOMAIN cells : ToNumericCell(cells[i]).k = "num"})

\* C8: when P2 has fewer than 10 non-missing numeric values, the returned
\* table has no grupo_ingreso column, no error is reported and the table holds
\* every input row and every input column.
C8_FewIncomesNoGroup ==
    (Loaded /\ HasColumn(data.table, "P2")
            /\ ValidCount(GetColumn(data.table, "P2").cells) < 10) =>
        /\ ~HasColumn(df, "grupo_ingreso")
        /\ \A i \in DOMAIN msgs : msgs[i].tipo # "error"
        /\ df.nrows = data.table.nrows
        /\ ColumnNames(data.table) \subseteq ColumnNames(df)

\* five incomes among the rows, and the table came back whole
C8_Witness ==
    /\ pc = "pagina"
    /\ data.found
    /\ HasColumn(data.table, "P2")
    /\ ValidCount(GetColumn(data.table, "P2").cells) = 5
    /\ df.nrows = data.table.nrows
    /\ df.nrows > 5
    /\ ~HasColumn(df, "grupo_ingreso")

NoIndicatorPresent(t) ==
    \A i \in DOMAIN cultural_vars_base : ~HasColumn(t, cultural_vars_base[i])

\* C9: when no indicator field is present, every row of the returned table
\* has indice_cultural 0 and nivel_participacion 'Sin datos', a value that is
\* none of Bajo, Medio, Alto.
C9_NoIndicatorsSinDatos ==
    (Loaded /\ NoIndicatorPresent(data.table)) =>
        \A i \in 1..df.nrows :
            /\ HasColumn(df, "indice_cultural")
            /\ HasColumn(df, "nivel_participacion")
            /\ Cell(df, "indice_cultural", i) = Num(0)
            /\ Cell(df, "nivel_participacion", i) = Str("Sin datos")
            /\ Cell(df, "nivel_participacion", i).s \notin SeqToSet(NivelLabels)

\* a table without indicator fields came back with its rows marked 'Sin datos'
C9_Witness ==
    /\ pc = "cargado"
    /\ data.found
    /\ NoIndicatorPresent(data.table)
    /\ df.nrows = data.table.nrows
    /\ df.nrows > 0
    /\ Cell(df, "nivel_participacion", 1) = Str("Sin datos")
    /\ Cell(df, "indice_cultural", 1) = Num(0)

\* the level the claim gives to index x out of max_possible
ClaimedNivel(x, max_possible) ==
    IF max_possible >= 3
    THEN IF 3 * x <= max_possible THEN "Bajo"
         ELSE IF 3 * x <= 2 * max_possible THEN "Medio" ELSE "Alto"
    ELSE IF 10 * x >= 7 * max_possible THEN "Alto"
         ELSE IF 10 * x >= 3 * max_possible THEN "Medio" ELSE "Bajo"

\* C10: whenever at least one indicator field contributes, every row's
\* nivel_participacion is one of Bajo, Medio, Alto (the tertile of the index
\* over [0, max_possible] when max_possible >= 3, the 70% / 30% thresholds
\* otherwise): no row is left without a level.
C10_EveryRowHasLevel ==
    (Loaded /\ HasMsg(msgs, "indice_creado")) =>
        \A i \in 1..df.nrows :
            /\ HasColumn(df, "nivel_participacion")
            /\ Cell(df, "nivel_participacion", i) =
                   Str(ClaimedNivel(Cell(df, "indice_cultural", i).n,
                                    MsgCount(msgs, "indice_creado")))

(***************************************************************************)
(* Properties of limpiar_datos_categoricos (checked under SpecClean).      *)
(***************************************************************************)
\* C4: cleaning is idempotent: cleaning the cleaned table again with the same
\* threshold returns the same table and reports no dropped and no imputed
\* column.
C4_CleanIdempotent ==
    pc = "limpio" =>
        LET again == limpiar_datos_categoricos(df_limpio, umbral_na)
        IN  /\ again.df_limpio = df_limpio
            /\ again.info_limpieza.columnas_eliminadas = <<>>
            /\ again.info_limpieza.columnas_imputadas_categoricas = <<>>

\* a first pass that dropped a column and imputed another
C4_Witness ==
    /\ pc = "limpio"
    /\ info_limpieza.columnas_eliminadas # <<>>
    /\ info_limpieza.columnas_imputadas_categoricas # <<>>
    /\ df_limpio # df

\* C5: a numeric column that cleaning keeps is returned cell by cell as it
\* was, its missing cells included.
C5_NumericUntouched ==
    pc = "limpio" =>
        \A i \in DOMAIN df.columns :
            (df.columns[i].dtype = "number" /\ HasColumn(df_limpio, df.columns[i].name)) =>
                /\ GetColumn(df_limpio, df.columns[i].name) = df.columns[i]
                /\ CountNull(GetColumn(df_limpio, df.columns[i].name).cells)
                       = CountNull(df.columns[i].cells)

\* a kept numeric column with a missing cell, beside an imputed categorical one
C5_Witness ==
    /\ pc = "limpio"
    /\ HasColumn(df, "EDAD")
    /\ HasColumn(df_limpio, "EDAD")
    /\ CountNull(GetColumn(df_limpio, "EDAD").cells) > 0
    /\ info_limpieza.columnas_imputadas_categoricas # <<>>

\* C6: a column is dropped exactly when its fraction of missing cells is
\* strictly greater than the threshold; with threshold 0 exactly the columns
\* with a missing cell are dropped, with threshold 1 (100%) none is, not even
\* a column that is entirely missing.
C6_DropIffAboveThreshold ==
    pc = "limpio" =>
        /\ \A i \in DOMAIN df.columns :
              LET na == CountNull(df.columns[i].cells)
                  dropped == df.columns[i].name \in SeqToSet(info_limpieza.columnas_eliminadas)
              IN  /\ dropped <=> (na * 100 > umbral_na * df.nrows)
                  /\ dropped <=> ~HasColumn(df_limpio, df.columns[i].name)
                  /\ umbral_na = 0 => (dropped <=> na > 0)
                  /\ umbral_na = 100 => ~dropped
        /\ SeqToSet(info_limpieza.columnas_eliminadas) \subseteq ColumnNames(df)

\* threshold 1 kept a column that is entirely missing
C6_Witness ==
    /\ pc = "limpio"
    /\ umbral_na = 100
    /\ \E i \in DOMAIN df.columns :
          /\ CountNull(df.columns[i].cells) = df.nrows
          /\ HasColumn(df_limpio, df.columns[i].name)

(***************************************************************************)
(* Floating-point results of the pages: a quotient of two integers, nan    *)
(* (0/0) or inf (x/0).  Dividing numpy numbers never raises.               *)
(***************************************************************************)
Frac(a, b) == [k |-> "frac", num |-> a, den |-> b]
NaN == [k |-> "nan", num |-> 0, den |-> 0]
Inf == [k |-> "inf", num |-> 1, den |-> 0]

Div(a, b) == IF b # 0 THEN Frac(a, b) ELSE IF a = 0 THEN NaN ELSE Inf

\* df[name] on a table without that column
KeyError(name) == [k |-> "KeyError", key |-> name]

\* (keep * weights).sum(): the weights of the rows kept, missing products skipped
RECURSIVE WeightSum(_, _, _)
WeightSum(w, keep, i) ==
    IF i > Len(w) THEN 0
    ELSE (IF keep[i] /\ w[i].k = "num" THEN w[i].n ELSE 0) + WeightSum(w, keep, i + 1)

\* Series.isin(values): texts compared as they are
isin(c, values) == c.k = "str" /\ c.s \in values

(***************************************************************************)
(* Page "Resumen Ejecutivo".                                               *)
(***************************************************************************)
\* a rate over every row of the table instead of the rows holding 'SI' or 'NO'
weighted_percentage_all(t, column, value) ==
    IF ~HasColumn(t, column) THEN KeyError(column)
    ELSE LET col == GetColumn(t, column).cells
             w == GetColumn(t, FACTOR).cells
         IN  Div(WeightSum(w, [i \in DOMAIN col |-> col[i] = Str(value)], 1), SumCells(w))

\* def weighted_percentage(df, column, value='SI')
weighted_percentage(t, column, value) ==
    IF ~HasColumn(t, column) THEN KeyError(column)
    ELSE LET col == GetColumn(t, column).cells
             w == GetColumn(t, FACTOR).cells
             valid == [i \in DOMAIN col |-> isin(col[i], {"SI", "NO"})]
         IN  IF \A i \in DOMAIN col : ~valid[i]
             THEN Frac(0, 1)
             ELSE Div(WeightSum(w, [i \in DOMAIN col |-> valid[i] /\ col[i] = Str(value)], 1),
                      WeightSum(w, valid, 1))

\* reading_rate = ((df_reading[col] == 'SI') * w).sum() / w.sum() * 100 over
\* df_reading = df[df['LECTURA LIBROS'].isin(['SI', 'NO'])]
reading_rate(t) ==
    IF ~HasColumn(t, "LECTURA LIBROS") THEN KeyError("LECTURA LIBROS")
    ELSE LET col == GetColumn(t, "LECTURA LIBROS").cells
             w == GetColumn(t, FACTOR).cells
             valid == [i \in DOMAIN col |-> isin(col[i], {"SI", "NO"})]
         IN  Div(100 * WeightSum(w, [i \in DOMAIN col |-> valid[i] /\ col[i] = Str("SI")], 1),
                 WeightSum(w, valid, 1))

\* participation_high = ((df['indice_cultural'] > 3) * w).sum() / w.sum() * 100
participation_high(t) ==
    LET indice == GetColumn(t, "indice_cultural").cells
        w == GetColumn(t, FACTOR).cells
    IN  Div(100 * WeightSum(w, [i \in DOMAIN w |-> indice[i].k = "num" /\ indice[i].n > 3], 1),
            SumCells(w))

\* (df['EDAD'] * w).sum(): a missing age gives a missing product, which sum() skips
RECURSIVE ProductSum(_, _, _)
ProductSum(x, w, i) ==
    IF i > Len(w) THEN 0
    ELSE (IF x[i].k = "num" /\ w[i].k = "num" THEN x[i].n * w[i].n ELSE 0)
         + ProductSum(x, w, i + 1)

\* avg_age = (df['EDAD'] * w).sum() / w.sum()
avg_age(t) ==
    IF ~HasColumn(t, "EDAD") THEN KeyError("EDAD")
    ELSE LET w == GetColumn(t, FACTOR).cells
         IN  Div(ProductSum(GetColumn(t, "EDAD").cells, w, 1), SumCells(w))

\* the group keys of df.groupby(col): every category of a categorical column, in
\* category order, observed or not; the sorted observed texts of any other column;
\* rows with a missing key belong to no group
NivelOrden == <<"Alto", "Bajo", "Medio", "Sin datos">>

GroupKeys(c) ==
    IF c.dtype = "category" THEN NivelLabels
    ELSE SelectSeq(NivelOrden, LAMBDA s : \E i \in DOMAIN c.cells : c.cells[i] = Str(s))

\* participation_data: per level the weight sum ('Población') and its share of
\* the total of those sums times 100 ('Porcentaje')
participation_data(t) ==
    LET c == GetColumn(t, "nivel_participacion")
        w == GetColumn(t, FACTOR).cells
        keys == GroupKeys(c)
        poblacion == [j \in DOMAIN keys |->
                        WeightSum(w, [i \in DOMAIN w |-> c.cells[i] = Str(keys[j])], 1)]
        total == WeightSum(w, [i \in DOMAIN w |->
                                 \E j \in DOMAIN keys : c.cells[i] = Str(keys[j])], 1)
    IN  [j \in DOMAIN keys |->
            [nivel |-> keys[j], poblacion |-> poblacion[j],
             porcentaje |-> Div(100 * poblacion[j], total)]]

\* if not df['grupo_edad'].isna().all() and not df['SEXO'].isna().all(): the chart
\* by gender and age, else a warning; 'and' does not read SEXO when the first
\* operand is false
AllNull(cells) == \A i \in DOMAIN cells : isnull(cells[i])

gender_age_data(t) ==
    IF ~HasColumn(t, "grupo_edad") THEN KeyError("grupo_edad")
    ELSE IF AllNull(GetColumn(t, "grupo_edad").cells) THEN [k |-> "warning"]
    ELSE IF ~HasColumn(t, "SEXO") THEN KeyError("SEXO")
    ELSE IF AllNull(GetColumn(t, "SEXO").cells) THEN [k |-> "warning"]
    ELSE [k |-> "chart"]

\* the columns of the activities dictionary, in the order it evaluates them
ActivityColumns ==
    <<"LECTURA LIBROS", "PRACTICA CULTURAL", "ASISTENCIA BIBLIOTECA", "P4",
      "ASISTENCIA MONUMENTOS", "P3", "ASISTENCIA CENTROS CUTURALES",
      "ASISTENCIA CASAS DE CULTURA", "ASISTENCIA CURSOS", "ASISTENCIA MUSEOS">>

activities(t) ==
    [j \in DOMAIN ActivityColumns |-> weighted_percentage(t, ActivityColumns[j], "SI")]

\* the page as a whole: the first KeyError ends it (the exception reaches the
\* top of the script); otherwise every figure is rendered
ResumenEjecutivo(t) ==
    LET pasos == <<avg_age(t), reading_rate(t), gender_age_data(t)>> \o activities(t)
        fallos == SelectSeq(pasos, LAMBDA r : r.k = "KeyError")
    IN  IF fallos # <<>>
        THEN [pagina |-> "resumen", raised |-> TRUE, error |-> Head(fallos).key]
        ELSE [pagina |-> "resumen", raised |-> FALSE, error |-> "",
              poblacion_total |-> SumCells(GetColumn(t, FACTOR).cells),
              participation_high |-> participation_high(t),
              avg_age |-> avg_age(t),
              reading_rate |-> reading_rate(t),
              participation_data |-> participation_data(t),
              gender_age_data |-> gender_age_data(t),
              activities |-> activities(t)]

(***************************************************************************)
(* The input tables of the executive summary: the columns the page reads,  *)
(* each family varying a few of them.                                      *)
(***************************************************************************)
\* rows of the tables that vary only the reading column
RateRows == 6

Alterna(n, a, b) == [i \in 1..n |-> IF i % 2 = 1 THEN a ELSE b]

Fixed(n, c) == [i \in 1..n |-> c]

\* a table of n rows; w, edad, sexo, lectura, p3 and p4 are the cells of a column,
\* or <<>> for an absent column
PageTable(n, w, edad, sexo, lectura, p3, p4) ==
    DataFrame(n, Present(<<
        ReadColumn(FACTOR, w), ReadColumn("EDAD", edad), ReadColumn("SEXO", sexo),
        ReadColumn("LECTURA LIBROS", lectura), ReadColumn("P3", p3), ReadColumn("P4", p4),
        ReadColumn("PRACTICA CULTURAL", Alterna(n, Str("SI"), Str("NO"))),
        ReadColumn("ASISTENCIA BIBLIOTECA", Alterna(n, Str("NO"), Str("SI"))),
        ReadColumn("ASISTENCIA MONUMENTOS", Fixed(n, Str("NO"))),
        ReadColumn("ASISTENCIA CENTROS CUTURALES", Fixed(n, Str("NO"))),
        ReadColumn("ASISTENCIA CASAS DE CULTURA", Fixed(n, Str("NO"))),
        ReadColumn("ASISTENCIA CURSOS", Alterna(n, Str("NO"), NA)),
        ReadColumn("ASISTENCIA MUSEOS", Fixed(n, Str("SI")))>>))

Mujer(n) == Fixed(n, Str("Mujer"))

ReadingCells == {NA, Str("SI"), Str("NO"), Str("sí")}

\* the weights and the reading column vary
RateTables ==
    {PageTable(NRows, w, Fixed(NRows, Num(20)), Mujer(NRows), l,
               Fixed(NRows, Num(1)), Fixed(NRows, Str("NO"))) :
        w \in OrAbsent(Cols({Num(1), Num(3)})), l \in OrAbsent(Cols(ReadingCells))}

\* no weight column (every weight becomes 1) and RateRows rows
UnitRateTables ==
    {PageTable(RateRows, <<>>, Fixed(RateRows, Num(20)), Mujer(RateRows), l,
               Fixed(RateRows, Num(1)), Fixed(RateRows, Str("NO"))) :
        l \in [1..RateRows -> {NA, Str("SI"), Str("NO")}]}

\* the weights and the ages vary
MeanTables ==
    {PageTable(NRows, w, e, Mujer(NRows), Fixed(NRows, Str("SI")),
               Fixed(NRows, Num(1)), Fixed(NRows, Str("NO"))) :
        w \in OrAbsent(Cols({Num(1), Num(3)})), e \in OrAbsent(Cols({NA, Num(20), Num(40)}))}

\* the weights and a numeric indicator vary
LevelTables ==
    {PageTable(NRows, w, Fixed(NRows, Num(20)), Mujer(NRows), Fixed(NRows, Str("SI")),
               p3, Fixed(NRows, Str("NO"))) :
        w \in Cols({Num(1), Num(3)}), p3 \in Cols({Num(0), Num(1), Num(20)})}

\* columns of the page absent or wholly missing
AbsentTables ==
    {PageTable(NRows, Fixed(NRows, Num(2)), e, s, l, Fixed(NRows, Num(1)), p4) :
        e \in {<<>>, Fixed(NRows, NA), Fixed(NRows, Num(20))},
        s \in {<<>>, Fixed(NRows, NA), Mujer(NRows)},
        l \in {<<>>, Fixed(NRows, Str("SI"))},
        p4 \in {<<>>, Fixed(NRows, Str("NO"))}}

ResumenInputs ==
    {NoFile}
    \cup {[found |-> TRUE, table |-> t] :
            t \in RateTables \cup UnitRateTables \cup MeanTables \cup LevelTables
                  \cup AbsentTables}

InitResumen ==
    /\ pc = "inicio"
    /\ data \in ResumenInputs
    /\ df = EmptyDataFrame
    /\ msgs = <<>>
    /\ umbral_na = UmbralDefault
    /\ df_limpio = EmptyDataFrame
    /\ info_limpieza = NoInfo
    /\ vista = NoVista

\* elif page == "📊 Resumen Ejecutivo": the page runs on the loaded table
PaginaResumen ==
    /\ pc = "pagina"
    /\ vista' = ResumenEjecutivo(df)
    /\ pc' = "resumen"
    /\ UNCHANGED <<data, df, msgs, umbral_na, df_limpio, info_limpieza>>

NextResumen == Cargar \/ Detener \/ MostrarPagina \/ PaginaResumen

SpecResumen == InitResumen /\ [][NextResumen]_vars

(***************************************************************************)
(* Properties of the executive summary (checked under SpecResumen).        *)
(***************************************************************************)
Rendered == pc = "resumen" /\ ~vista.raised

\* the sum of f over the rows of S
RECURSIVE SumSet(_, _)
SumSet(f, S) ==
    IF S = {} THEN 0
    ELSE LET i == CHOOSE i \in S : TRUE IN f[i] + SumSet(f, S \ {i})

Weights == [i \in 1..df.nrows |-> Cell(df, FACTOR, i).n]

\* the rows of the loaded table whose cell of a column is one of the texts
RowsWith(column, texts) ==
    {i \in 1..df.nrows : Cell(df, column, i) \in {Str(s) : s \in texts}}

\* C11: the weighted rate of a column is the weight sum of the rows holding 'SI'
\* divided by the weight sum of the rows holding 'SI' or 'NO'; when every weight
\* is 1 it is the plain proportion of 'SI' among those rows.
C11_WeightedRate ==
    Rendered =>
        \A j \in DOMAIN ActivityColumns :
            LET eligible == RowsWith(ActivityColumns[j], {"SI", "NO"})
                yes == RowsWith(ActivityColumns[j], {"SI"})
                r == vista.activities[j]
            IN  eligible # {} =>
                    /\ r.k = "frac"
                    /\ r.num * SumSet(Weights, eligible) = SumSet(Weights, yes) * r.den
                    /\ (\A i \in 1..df.nrows : Weights[i] = 1) =>
                            r.num * Cardinality(eligible) = Cardinality(yes) * r.den

\* six eligible rows of weight 1, three of them 'SI': the rate is one half
C11_Witness ==
    /\ Rendered
    /\ \A i \in 1..df.nrows : Weights[i] = 1
    /\ Cardinality(RowsWith("LECTURA LIBROS", {"SI", "NO"})) = 6
    /\ Cardinality(RowsWith("LECTURA LIBROS", {"SI"})) = 3
    /\ vista.activities[1].k = "frac"
    /\ 2 * vista.activities[1].num = vista.activities[1].den

\* a rate that is a number: neither nan nor inf
IsNumber(r) == r.k = "frac" /\ r.den # 0

\* C12: every weighted rate is a number, and is 0 when the rows holding 'SI' or
\* 'NO' have weight sum 0 (in particular when there is no such row); this holds
\* for the rates of weighted_percentage and for the reading rate.
C12_RateZeroWhenNoEligible ==
    Rendered =>
        /\ \A j \in DOMAIN ActivityColumns :
            /\ IsNumber(vista.activities[j])
            /\ SumSet(Weights, RowsWith(ActivityColumns[j], {"SI", "NO"})) = 0
                    => vista.activities[j].num = 0
        /\ IsNumber(vista.reading_rate)
        /\ SumSet(Weights, RowsWith("LECTURA LIBROS", {"SI", "NO"})) = 0
                => vista.reading_rate.num = 0

\* the rows of the loaded table whose age is a number
RowsWithAge == {i \in 1..df.nrows : Cell(df, "EDAD", i).k = "num"}

\* C13: the weighted average age leaves the rows with a missing age out of the
\* numerator and out of the weight sum it divides by, and is undefined (nan),
\* not 0, when no row has an age.
C13_MeanOverEligibleRows ==
    Rendered =>
        LET eligible == RowsWithAge
            products == [i \in 1..df.nrows |-> Cell(df, "EDAD", i).n * Weights[i]]
        IN  IF eligible = {}
            THEN vista.avg_age.k = "nan"
            ELSE /\ vista.avg_age.k = "frac"
                 /\ vista.avg_age.num * SumSet(Weights, eligible)
                        = SumSet(products, eligible) * vista.avg_age.den

\* the sum of the shares of the groups from the j-th on, as a fraction
RECURSIVE ShareSum(_, _)
ShareSum(groups, j) ==
    IF j > Len(groups) THEN Frac(0, 1)
    ELSE LET a == groups[j].porcentaje
             b == ShareSum(groups, j + 1)
         IN  Frac(a.num * b.den + b.num * a.den, a.den * b.den)

\* C14: on a loaded table (which is not empty and has positive weights) the
\* shares of the participation levels are numbers between 0 and 100 per cent
\* and add up to exactly 100 per cent.
C14_SharesSumToOne ==
    Rendered =>
        /\ \A j \in DOMAIN vista.participation_data :
            LET p == vista.participation_data[j].porcentaje
            IN  IsNumber(p) /\ 0 <= p.num /\ p.num <= 100 * p.den
        /\ LET s == ShareSum(vista.participation_data, 1)
           IN  s.den # 0 /\ s.num = 100 * s.den

(***************************************************************************)
(* cramers_v and calculate_association_matrix.                             *)
(***************************************************************************)
\* weights=None
None == <<>>

RECURSIVE SumOver(_, _)
SumOver(f, S) ==
    IF S = {} THEN 0
    ELSE LET i == CHOOSE i \in S : TRUE IN f[i] + SumOver(f, S \ {i})

RECURSIVE ProductOver(_, _)
ProductOver(f, S) ==
    IF S = {} THEN 1
    ELSE LET i == CHOOSE i \in S : TRUE IN f[i] * ProductOver(f, S \ {i})

\* pd.crosstab(x, y) counts the rows of each pair, 0 for a pair without rows;
\* pd.crosstab(x, y, weights, aggfunc='sum') sums their weights (a missing weight
\* is skipped) and leaves NaN for a pair without rows.  Rows with a missing x or
\* y are in no pair.
crosstab(x, y, weights) ==
    LET kept == {i \in DOMAIN x : ~isnull(x[i]) /\ ~isnull(y[i])}
        index == {x[i] : i \in kept}
        columns == {y[i] : i \in kept}
        value == [i \in DOMAIN x |->
                    IF weights = None THEN 1
                    ELSE IF weights[i].k = "num" THEN weights[i].n ELSE 0]
    IN  [index |-> index, columns |-> columns,
         cell |-> [p \in index \X columns |->
                     LET rows == {i \in kept : x[i] = p[1] /\ y[i] = p[2]}
                     IN  IF rows = {} THEN (IF weights = None THEN Num(0) ELSE NA)
                         ELSE Num(SumOver(value, rows))]]

\* crosstab.sum().sum(): NaN cells are skipped
Total(ct) ==
    SumOver([p \in DOMAIN ct.cell |-> ct.cell[p].n], DOMAIN ct.cell)

ValueError == [k |-> "ValueError", num |-> 0, den |-> 0]

\* chi2_contingency(crosstab)[0], as a fraction.  A negative cell or an expected
\* frequency of 0 (a row or column of sum 0) raises ValueError; a NaN cell makes
\* every expected frequency and the statistic NaN; a table of one row or one
\* column has statistic 0; a 2x2 table gets the continuity correction (each
\* observed value moves towards its expected value by at most 0.5).
chi2_contingency(ct) ==
    LET observed == [p \in DOMAIN ct.cell |-> ct.cell[p].n]
        n == Total(ct)
        R == [a \in ct.index |-> SumOver([b \in ct.columns |-> observed[<<a, b>>]], ct.columns)]
        C == [b \in ct.columns |-> SumOver([a \in ct.index |-> observed[<<a, b>>]], ct.index)]
        dof == (Cardinality(ct.index) - 1) * (Cardinality(ct.columns) - 1)
        P == ProductOver(R, ct.index) * ProductOver(C, ct.columns)
        Abs(v) == IF v < 0 THEN -v ELSE v
        \* 2n times |observed - expected| times the expected denominator
        term(p) ==
            LET d == 2 * Abs(R[p[1]] * C[p[2]] - n * observed[p])
                e == IF dof = 1 THEN (IF d > n THEN d - n ELSE 0) ELSE d
            IN  e * e * (P \div (R[p[1]] * C[p[2]]))
    IN  IF \E p \in DOMAIN ct.cell : ct.cell[p].k = "num" /\ ct.cell[p].n < 0
        THEN ValueError
        ELSE IF \E p \in DOMAIN ct.cell : isnull(ct.cell[p])
        THEN NaN
        ELSE IF \E p \in DOMAIN ct.cell : R[p[1]] * C[p[2]] = 0
        THEN ValueError
        ELSE IF dof = 0 THEN Frac(0, 1)
        ELSE Frac(SumOver([p \in DOMAIN ct.cell |-> term(p)], DOMAIN ct.cell), 4 * n * P)

\* a value of cramers_v: the square root of num/den, or nan
Sqrt(num, den) == [k |-> "sqrt", num |-> num, den |-> den]
Zero == Sqrt(0, 1)
One == Sqrt(1, 1)

\* def cramers_v(x, y, weights=None)
cramers_v(x, y, weights) ==
    LET ct == crosstab(x, y, weights)
    IN  IF DOMAIN ct.cell = {} \/ Total(ct) = 0 THEN Zero
        ELSE LET chi2 == chi2_contingency(ct)
                 n == Total(ct)
                 rows_1 == Cardinality(ct.index) - 1
                 cols_1 == Cardinality(ct.columns) - 1
                 min_dim == IF rows_1 < cols_1 THEN rows_1 ELSE cols_1
             IN  IF chi2.k = "ValueError" THEN Zero
                 ELSE IF min_dim = 0 THEN Zero
                 ELSE IF chi2.k = "nan" THEN NaN
                 ELSE IF chi2.num > chi2.den * n * min_dim THEN One
                 ELSE Sqrt(chi2.num, chi2.den * n * min_dim)

\* the matrix without the assignment association_matrix[j, i] = assoc_value
calculate_association_matrix_upper(t, variables, weights) ==
    LET n_vars == Len(variables)
        entry(i, j) ==
            LET c1 == GetColumn(t, variables[i]).cells
                c2 == GetColumn(t, variables[j]).cells
                cw == IF weights # None THEN GetColumn(t, weights[1]).cells ELSE None
                valid_mask == {r \in 1..t.nrows :
                                 /\ ~isnull(c1[r]) /\ ~isnull(c2[r])
                                 /\ weights # None => ~isnull(cw[r])}
                \* df.loc[valid_mask, var]: the rows of the mask, in order
                rows == SelectSeq([r \in 1..t.nrows |-> r], LAMBDA r : r \in valid_mask)
                x == [r \in DOMAIN rows |-> c1[rows[r]]]
                y == [r \in DOMAIN rows |-> c2[rows[r]]]
                w == IF weights # None THEN [r \in DOMAIN rows |-> cw[rows[r]]] ELSE None
            IN  IF valid_mask # {} THEN cramers_v(x, y, w) ELSE Zero
    IN  [i \in 1..n_vars |->
            [j \in 1..n_vars |->
                IF i = j THEN One
                ELSE IF i < j THEN entry(i, j) ELSE Zero]]

\* def calculate_association_matrix(df, variables, weights=None); weights is the
\* name of the weight column in a sequence, None for no weights
calculate_association_matrix(t, variables, weights) ==
    LET n_vars == Len(variables)
        entry(i, j) ==
            LET c1 == GetColumn(t, variables[i]).cells
                c2 == GetColumn(t, variables[j]).cells
                cw == IF weights # None THEN GetColumn(t, weights[1]).cells ELSE None
                valid_mask == {r \in 1..t.nrows :
                                 /\ ~isnull(c1[r]) /\ ~isnull(c2[r])
                                 /\ weights # None => ~isnull(cw[r])}
                \* df.loc[valid_mask, var]: the rows of the mask, in order
                rows == SelectSeq([r \in 1..t.nrows |-> r], LAMBDA r : r \in valid_mask)
                x == [r \in DOMAIN rows |-> c1[rows[r]]]
                y == [r \in DOMAIN rows |-> c2[rows[r]]]
                w == IF weights # None THEN [r \in DOMAIN rows |-> cw[rows[r]]] ELSE None
            IN  IF valid_mask # {} THEN cramers_v(x, y, w) ELSE Zero
    IN  [i \in 1..n_vars |->
            [j \in 1..n_vars |->
                IF i = j THEN One
                ELSE IF i < j THEN entry(i, j) ELSE entry(j, i)]]

(***************************************************************************)
(* The arguments of calculate_association_matrix and cramers_v: tables of  *)
(* three fields A, B, C and a weight.                                      *)
(***************************************************************************)
\* rows of the tables that hold one row per pair of categories
AsocRows == 6

\* the i-th pair of categories of A (2 values) and B (3 values)
PairA(i) == Str(<<"a1", "a2">>[((i - 1) % 2) + 1])
PairB(i) == Str(<<"b1", "b2", "b3">>[(((i - 1) \div 2) % 3) + 1])

AsocTable(n, a, b, c, w) ==
    DataFrame(n, <<ReadColumn("A", a), ReadColumn("B", b), ReadColumn("C", c),
                   ReadColumn(FACTOR, w)>>)

\* each row holds its pair with weight 0, 1 or 2, or (option NA) has no value of A
\* and weight 1
PairTables ==
    {AsocTable(AsocRows,
               [i \in 1..AsocRows |-> IF isnull(o[i]) THEN NA ELSE PairA(i)],
               [i \in 1..AsocRows |-> PairB(i)],
               Alterna(AsocRows, Str("c1"), Str("c2")),
               [i \in 1..AsocRows |-> IF isnull(o[i]) THEN Num(1) ELSE o[i]]) :
        o \in [1..AsocRows -> {NA, Num(0), Num(1), Num(2)}]}

\* few rows, any of them without a value of A or without a weight
MaskTables ==
    {AsocTable(NRows, a, Alterna(NRows, Str("b1"), Str("b2")),
               Alterna(NRows, NA, Str("c1")), w) :
        a \in Cols({NA, Str("a1"), Str("a2")}), w \in Cols({NA, Num(0), Num(1)})}

AsocTables == PairTables \cup MaskTables \cup {AsocTable(0, <<>>, <<>>, <<>>, <<>>)}

VariableLists == {<<"B">>, <<"A", "B">>, <<"A", "B", "C">>}

InitAsoc ==
    /\ pc = "pagina"
    /\ data = NoFile
    /\ df \in AsocTables
    /\ msgs = <<>>
    /\ umbral_na = UmbralDefault
    /\ df_limpio = EmptyDataFrame
    /\ info_limpieza = NoInfo
    /\ vista = NoVista

\* association_matrix = calculate_association_matrix(df, valid_vars, 'FACTOR DE EXPANSION')
CalcularMatriz ==
    /\ pc = "pagina"
    /\ \E variables \in VariableLists :
        vista' = [pagina |-> "matriz", variables |-> variables,
                  association_matrix |->
                      calculate_association_matrix(df, variables, <<FACTOR>>)]
    /\ pc' = "matriz"
    /\ UNCHANGED <<data, df, msgs, umbral_na, df_limpio, info_limpieza>>

\* assoc_value = cramers_v(x, y, w) on the fields A and B of the whole table,
\* with the weights or without; crosstab is the table cramers_v builds
CalcularCramersV ==
    /\ pc = "pagina"
    /\ \E weights \in {None, <<FACTOR>>} :
        LET x == GetColumn(df, "A").cells
            y == GetColumn(df, "B").cells
            w == IF weights = None THEN None ELSE GetColumn(df, FACTOR).cells
        IN  vista' = [pagina |-> "cramers_v", weights |-> weights,
                      crosstab |-> crosstab(x, y, w),
                      assoc_value |-> cramers_v(x, y, w)]
    /\ pc' = "cramers_v"
    /\ UNCHANGED <<data, df, msgs, umbral_na, df_limpio, info_limpieza>>

NextAsoc == CalcularMatriz \/ CalcularCramersV

SpecAsoc == InitAsoc /\ [][NextAsoc]_vars

(***************************************************************************)
(* Properties of cramers_v and calculate_association_matrix (checked under *)
(* SpecAsoc).                                                              *)
(***************************************************************************)
\* a value of cramers_v that is a number of [0, 1]
InUnitInterval(v) == v.k = "sqrt" /\ v.den > 0 /\ 0 <= v.num /\ v.num <= v.den

\* the rows of the table that have a value of A and of B
PairedRows == {i \in 1..df.nrows : ~isnull(Cell(df, "A", i)) /\ ~isnull(Cell(df, "B", i))}

\* no row, or one category only in A or in B
Degenerate ==
    \/ PairedRows = {}
    \/ Cardinality({Cell(df, "A", i) : i \in PairedRows}) = 1
    \/ Cardinality({Cell(df, "B", i) : i \in PairedRows}) = 1

\* some value of A and some value of B of the table never occur in the same row
SomePairWithoutRow ==
    \E i, j \in PairedRows :
        \A r \in PairedRows : ~(Cell(df, "A", r) = Cell(df, "A", i)
                                /\ Cell(df, "B", r) = Cell(df, "B", j))

\* C15: every value that cramers_v returns is a number between 0 and 1, and it
\* is 0 on a degenerate input (no row, or a field with a single category); this
\* includes the tables where some pair of categories has no row.
C15_CramersVInUnitInterval ==
    /\ pc = "cramers_v" =>
        /\ InUnitInterval(vista.assoc_value)
        /\ Degenerate => vista.assoc_value.num = 0
    /\ pc = "matriz" =>
        \A i, j \in DOMAIN vista.association_matrix :
            InUnitInterval(vista.association_matrix[i][j])

\* the cells of the rows of S, in row order
RECURSIVE Restrict(_, _, _)
Restrict(cells, S, i) ==
    IF i > Len(cells) THEN <<>>
    ELSE (IF i \in S THEN <<cells[i]>> ELSE <<>>) \o Restrict(cells, S, i + 1)

\* the rows where two fields and the weight are all present
ValidRows(var1, var2) ==
    {r \in 1..df.nrows : /\ ~isnull(Cell(df, var1, r))
                         /\ ~isnull(Cell(df, var2, r))
                         /\ ~isnull(Cell(df, FACTOR, r))}

FileLoaded == data.found /\ ~IsEmpty(data.table)

\* C17: when the file was read and its table is not empty, the script does not
\* stop after the load and the executive summary does not raise: an absent
\* field, a failed coercion or a degenerate statistic never halts the page.
C17_OnlyLoadFailureHalts ==
    FileLoaded =>
        /\ pc # "detenido"
        /\ pc = "resumen" => ~vista.raised

\* C18: whatever expected columns (age, income, weight, indicator fields) the
\* table read from the file lacks, the load returns a table with the same rows,
\* without the age group when the age is absent, without the income group when
\* the income is absent, with weight 1 when the weight is absent, and with index
\* 0 and level 'Sin datos' when every indicator field is absent.
C18_AbsentColumnsTolerated ==
    (FileLoaded /\ pc # "inicio") =>
        /\ df.nrows = data.table.nrows
        /\ ~HasColumn(data.table, "EDAD") => ~HasColumn(df, "grupo_edad")
        /\ ~HasColumn(data.table, "P2") => ~HasColumn(df, "grupo_ingreso")
        /\ ~HasColumn(data.table, FACTOR) =>
                /\ HasColumn(df, FACTOR)
                /\ \A i \in 1..df.nrows : Cell(df, FACTOR, i) = Num(1)
        /\ NoIndicatorPresent(data.table) =>
                /\ HasColumn(df, "nivel_participacion")
                /\ \A i \in 1..df.nrows :
                    /\ Cell(df, "nivel_participacion", i) = Str(SinDatos)
                    /\ Cell(df, "indice_cultural", i) = Num(0)

(***************************************************************************)
(* Properties of the cleaning report (checked under SpecClean).            *)
(***************************************************************************)
Cleaned == pc = "limpio"

\* the place of a column in the table that was cleaned
Position(name) == CHOOSE i \in DOMAIN df.columns : df.columns[i].name = name

\* the missing cells of a column of the table that was cleaned (every column has
\* the same number of rows, so the counts order the columns as the fractions do)
MissingCount(name) == CountNull(GetColumn(df, name).cells)

\* C19 as claimed: columnas_eliminadas lists the dropped columns by descending
\* missing fraction, columns of equal fraction in their original order.
C19_DroppedByDescendingFraction ==
    Cleaned =>
        LET e == info_limpieza.columnas_eliminadas
        IN  \A p, q \in DOMAIN e :
                p < q =>
                    \/ MissingCount(e[p]) > MissingCount(e[q])
                    \/ /\ MissingCount(e[p]) = MissingCount(e[q])
                       /\ Position(e[p]) < Position(e[q])

\* C19: columnas_eliminadas lists the dropped columns in their original column
\* order, whatever their missing fractions.
C19_DroppedInColumnOrder ==
    Cleaned =>
        LET e == info_limpieza.columnas_eliminadas
        IN  \A p, q \in DOMAIN e : p < q => Position(e[p]) < Position(e[q])

\* two columns dropped, the later one with the larger missing fraction
C19_Witness ==
    /\ Cleaned
    /\ Len(info_limpieza.columnas_eliminadas) >= 2
    /\ MissingCount(info_limpieza.columnas_eliminadas[1])
            < MissingCount(info_limpieza.columnas_eliminadas[2])

\* the retained categorical columns of the table that was cleaned, by name
RetainedCategorical ==
    {df.columns[i].name : i \in {k \in DOMAIN df.columns :
                                    /\ df.columns[k].dtype \in {"object", "category"}
                                    /\ HasColumn(df_limpio, df.columns[k].name)}}

\* C20: after cleaning, no retained categorical column has a missing cell: each
\* cell that was missing holds 'NO INFORMACION' and every other cell is as
\* before; columnas_imputadas_categoricas lists exactly the retained categorical
\* columns that had a missing cell, in column order.
C20_CategoricalImputed ==
    Cleaned =>
        LET imputadas == info_limpieza.columnas_imputadas_categoricas
        IN  /\ \A name \in RetainedCategorical :
                \A r \in 1..df.nrows :
                    /\ ~isnull(Cell(df_limpio, name, r))
                    /\ Cell(df_limpio, name, r) =
                         IF isnull(Cell(df, name, r))
                         THEN Str("NO INFORMACION") ELSE Cell(df, name, r)
            /\ SeqToSet(imputadas) = {name \in RetainedCategorical : MissingCount(name) > 0}
            /\ \A p, q \in DOMAIN imputadas : p < q => Position(imputadas[p]) < Position(imputadas[q])

\* two categorical columns imputed, one of them with a cell that stays as it was
C20_Witness ==
    /\ Cleaned
    /\ Len(info_limpieza.columnas_imputadas_categoricas) = 2
    /\ \E r, q \in 1..df.nrows :
        /\ isnull(Cell(df, "SEXO", r))
        /\ Cell(df_limpio, "SEXO", r) = Str("NO INFORMACION")
        /\ Cell(df, "SEXO", q) = Str("Mujer")
        /\ Cell(df_limpio, "SEXO", q) = Str("Mujer")

(***************************************************************************)
(* Properties of the SI/NO companions and of the cultural index (checked   *)
(* under SpecLoad).                                                        *)
(***************************************************************************)
\* the load ended without an exception
LoadCompleted == Loaded /\ ~HasMsg(msgs, "error_al_cargar")

\* the texts of the model that read SI or SÍ, and those that read NO, once
\* trimmed and upper-cased
YesTexts == {"SI", "si", " Si ", "SÍ", "sí"}
NoTexts == {"NO", "no "}

\* a column read as text whose non-missing cells all read SI, SÍ or NO
YesNoColumn(c) ==
    /\ c.dtype = "object"
    /\ \A i \in DOMAIN c.cells :
        ~isnull(c.cells[i]) =>
            c.cells[i].k = "str" /\ c.cells[i].s \in YesTexts \cup NoTexts

\* C21: when the load completes, every text column of the file whose non-missing
\* values all read SI, SÍ or NO has a companion '<name>_num' holding 1 for SI/SÍ,
\* 0 for NO and 0 for a missing cell; a text column with any other value has no
\* companion.
C21_YesNoCompanions ==
    LoadCompleted =>
        \A k \in DOMAIN data.table.columns :
            LET c == data.table.columns[k]
            IN  c.dtype = "object" =>
                    IF YesNoColumn(c)
                    THEN /\ HasColumn(df, NumName(c.name))
                         /\ \A i \in DOMAIN c.cells :
                                Cell(df, NumName(c.name), i) =
                                    IF c.cells[i].k = "str" /\ c.cells[i].s \in YesTexts
                                    THEN Num(1) ELSE Num(0)
                    ELSE ~HasColumn(df, NumName(c.name))

\* a column with 'sí' and a missing cell got its companion, next to a text
\* column with another value, which got none
C21_Witness ==
    /\ LoadCompleted
    /\ HasColumn(df, "asistencia_museos_num")
    /\ \E i, j \in 1..df.nrows :
        /\ Cell(df, "ASISTENCIA MUSEOS", i) = Str("sí")
        /\ Cell(df, "asistencia_museos_num", i) = Num(1)
        /\ isnull(Cell(df, "ASISTENCIA MUSEOS", j))
        /\ Cell(df, "asistencia_museos_num", j) = Num(0)
    /\ HasColumn(df, "LECTURA LIBROS")
    /\ GetColumn(df, "LECTURA LIBROS").dtype = "object"
    /\ ~HasColumn(df, "lectura_libros_num")

\* the places of the columns of the file that are enumerated indicator fields
IndicatorsPresent ==
    {k \in DOMAIN data.table.columns :
        data.table.columns[k].name \in SeqToSet(cultural_vars_base)}

\* max_possible as the load reports it; 0 when it builds no index
ReportedMaxPossible ==
    IF HasMsg(msgs, "indice_creado") THEN MsgCount(msgs, "indice_creado") ELSE 0

\* what a cell of an indicator field adds to the index: its number, 1 for a text
\* that reads SI or SÍ, 0 otherwise
Contribution(c) ==
    IF c.k = "num" THEN c.n
    ELSE IF c.k = "str" /\ c.s \in YesTexts THEN 1 ELSE 0

\* the sum of the contributions of the columns of S in row i
IndexOver(S, i) ==
    SumSet([k \in DOMAIN data.table.columns |->
                Contribution(data.table.columns[k].cells[i])], S)

\* C22 as claimed: every enumerated indicator field present in the file is
\* counted in max_possible and adds its value to indice_cultural.
C22_EveryPresentIndicatorCounts ==
    LoadCompleted =>
        /\ ReportedMaxPossible = Cardinality(IndicatorsPresent)
        /\ \A i \in 1..df.nrows :
            Cell(df, "indice_cultural", i) = Num(IndexOver(IndicatorsPresent, i))

\* the indicator fields the index can use: numeric, or text reading SI/SÍ/NO
IndicatorsUsable ==
    {k \in IndicatorsPresent :
        data.table.columns[k].dtype = "number" \/ YesNoColumn(data.table.columns[k])}

\* C22: the enumerated indicator fields that are numeric or have a SI/NO
\* companion are counted in max_possible and add their value to
\* indice_cultural; absent fields and text fields with another value are not.
C22_UsableIndicatorsCount ==
    LoadCompleted =>
        /\ ReportedMaxPossible = Cardinality(IndicatorsUsable)
        /\ \A i \in 1..df.nrows :
            Cell(df, "indice_cultural", i) = Num(IndexOver(IndicatorsUsable, i))

\* two indicator fields present, one of them a text field with another value:
\* max_possible is 1 and the index is the value of the other field
C22_Witness ==
    /\ LoadCompleted
    /\ Cardinality(IndicatorsPresent) = 2
    /\ Cardinality(IndicatorsUsable) = 1
    /\ ReportedMaxPossible = 1
    /\ \E i \in 1..df.nrows : Cell(df, "indice_cultural", i) = Num(1)

\* the numeric values of the P2 column of the file
InputIncomes == dropna(to_numeric(GetColumn(data.table, "P2").cells))

\* P2 has more than 10 values and two of its quartile cut-points coincide
QuartilesCollapse ==
    /\ HasColumn(data.table, "P2")
    /\ Len(InputIncomes) > 10
    /\ HasDuplicates(QcutBins(InputIncomes))

\* C23: when P2 has more than 10 values and its quartile cut-points collapse, the
\* load reports no failure and returns every row, with grupo_ingreso holding one
\* of Bajo, Medio-Bajo, Medio-Alto, Alto for every row that has an income.
C23_CollapseFallsBack ==
    (Loaded /\ QuartilesCollapse) =>
        /\ ~HasMsg(msgs, "error_al_cargar")
        /\ ~IsEmpty(df)
        /\ df.nrows = data.table.nrows
        /\ HasColumn(df, "grupo_ingreso")
        /\ \A i \in 1..df.nrows :
            Cell(df, "P2", i).k = "num" =>
                /\ Cell(df, "grupo_ingreso", i).k = "str"
                /\ Cell(df, "grupo_ingreso", i).s \in SeqToSet(IngresoLabels)

(***************************************************************************)
(* Page "Actividades Específicas".                                         *)
(***************************************************************************)
\* the columns of activities_dict, one of which the selectbox selects
ActivitiesDict ==
    {"P3", "P4", "P5", "ASISTENCIA BIBLIOTECA", "ASISTENCIA CASAS DE CULTURA",
     "ASISTENCIA CENTROS CUTURALES", "LECTURA LIBROS"}

\* Series.dropna().unique(): the values in order of first appearance
RECURSIVE unique(_)
unique(cells) ==
    IF cells = <<>> THEN <<>>
    ELSE LET init == unique(SubSeq(cells, 1, Len(cells) - 1))
             last == cells[Len(cells)]
         IN  IF isnull(last) \/ last \in SeqToSet(init) THEN init ELSE Append(init, last)

\* (yes_weight / total_weight * 100) if total_weight > 0 else 0, over the rows of
\* the table kept by the mask; yes_weight is the weight of the kept rows whose
\* cell of the activity column is 'SI'
RateOver(t, keep, activity_col) ==
    LET w == GetColumn(t, FACTOR).cells
        act == GetColumn(t, activity_col).cells
        yes_weight == WeightSum(w, [i \in DOMAIN w |-> keep[i] /\ act[i] = Str("SI")], 1)
        total_weight == WeightSum(w, keep, 1)
    IN  IF total_weight > 0 THEN Frac(100 * yes_weight, total_weight) ELSE Frac(0, 1)

\* participation_rate: the rate over every row of the table
participation_rate(t, activity_col) ==
    IF ~HasColumn(t, activity_col) THEN KeyError(activity_col)
    ELSE RateOver(t, [i \in 1..t.nrows |-> TRUE], activity_col)

\* total_participants: the weight of the rows whose cell is 'SI'
total_participants(t, activity_col) ==
    LET w == GetColumn(t, FACTOR).cells
        act == GetColumn(t, activity_col).cells
    IN  WeightSum(w, [i \in DOMAIN w |-> act[i] = Str("SI")], 1)

\* the rate of each value of a grouping column, in order of first appearance
GroupRates(t, group_col, activity_col) ==
    LET g == GetColumn(t, group_col).cells
        keys == unique(g)
    IN  [j \in DOMAIN keys |->
            [key |-> keys[j],
             rate |-> RateOver(t, [i \in DOMAIN g |-> g[i] = keys[j]], activity_col)]]

\* max(age_participation_rates.items(), key=lambda x: x[1])[0]: the first group
\* of the highest rate; max() of no item raises ValueError
max_group(rates) ==
    IF rates = <<>> THEN [k |-> "ValueError"]
    ELSE LET above(a, b) == a.num * b.den > b.num * a.den
             j == CHOOSE j \in DOMAIN rates :
                    /\ \A m \in DOMAIN rates : ~above(rates[m].rate, rates[j].rate)
                    /\ \A m \in 1..(j - 1) : above(rates[j].rate, rates[m].rate)
         IN  rates[j].key

NotRun == [k |-> "not run"]

IsException(r) == r.k \in {"KeyError", "ValueError"}

\* the page as a whole for the selected column: the three metrics, then the
\* rates by age group and by education level; the first exception ends the page
ActividadesEspecificas(t, activity_col) ==
    LET rate == participation_rate(t, activity_col)
        group == IF IsException(rate) THEN NotRun
                 ELSE IF ~HasColumn(t, "grupo_edad") THEN KeyError("grupo_edad")
                 ELSE max_group(GroupRates(t, "grupo_edad", activity_col))
        edu == IF IsException(rate) \/ IsException(group) THEN NotRun
               ELSE IF ~HasColumn(t, "NIVEL EDUCATIVO") THEN KeyError("NIVEL EDUCATIVO")
               ELSE [k |-> "chart",
                     rates |-> GroupRates(t, "NIVEL EDUCATIVO", activity_col)]
    IN  [pagina |-> "actividades", activity_col |-> activity_col,
         raised |-> IsException(rate) \/ IsException(group) \/ IsException(edu),
         participation_rate |-> rate,
         total_participants |-> IF IsException(rate) THEN 0
                                ELSE total_participants(t, activity_col),
         max_group |-> group,
         age_participation |-> IF IsException(rate) \/ IsException(group) THEN <<>>
                               ELSE GroupRates(t, "grupo_edad", activity_col),
         edu_participation |-> edu]

(***************************************************************************)
(* The input tables of the activities page.                                *)
(***************************************************************************)
ActividadTable(n, w, edad, edu, lectura) ==
    DataFrame(n, Present(<<
        ReadColumn(FACTOR, w), ReadColumn("EDAD", edad),
        ReadColumn("NIVEL EDUCATIVO", edu), ReadColumn("LECTURA LIBROS", lectura),
        ReadColumn("P3", Fixed(n, Num(1))),
        ReadColumn("P4", Alterna(n, Str("SI"), Str("NO")))>>))

Primaria(n) == Fixed(n, Str("Primaria"))

\* the weights and the reading column vary
ActividadRateTables ==
    {ActividadTable(NRows, w, Alterna(NRows, Num(10), Num(30)), Primaria(NRows), l) :
        w \in Cols({Num(1), Num(3)}), l \in OrAbsent(Cols(ReadingCells))}

\* the age and the education level vary
ActividadGroupTables ==
    {ActividadTable(NRows, Alterna(NRows, Num(1), Num(3)), e, n,
                    Alterna(NRows, Str("NO"), Str("SI"))) :
        e \in OrAbsent(Cols({NA, Num(10), Num(30)})),
        n \in {<<>>, Primaria(NRows), Alterna(NRows, NA, Str("Primaria")),
               Alterna(NRows, Str("Primaria"), Str("Superior"))}}

ActividadInputs ==
    {NoFile}
    \cup {[found |-> TRUE, table |-> t] : t \in ActividadRateTables \cup ActividadGroupTables}

InitActividades ==
    /\ pc = "inicio"
    /\ data \in ActividadInputs
    /\ df = EmptyDataFrame
    /\ msgs = <<>>
    /\ umbral_na = UmbralDefault
    /\ df_limpio = EmptyDataFrame
    /\ info_limpieza = NoInfo
    /\ vista = NoVista

\* elif page == "📚 Actividades Específicas": the page runs on the loaded table
\* for the activity selected
PaginaActividades ==
    /\ pc = "pagina"
    /\ \E activity_col \in ActivitiesDict :
        vista' = ActividadesEspecificas(df, activity_col)
    /\ pc' = "actividades"
    /\ UNCHANGED <<data, df, msgs, umbral_na, df_limpio, info_limpieza>>

NextActividades == Cargar \/ Detener \/ MostrarPagina \/ PaginaActividades

SpecActividades == InitActividades /\ [][NextActividades]_vars

(***************************************************************************)
(* Properties of the activities page (checked under SpecActividades).      *)
(***************************************************************************)
\* the rows of the loaded table whose cell of a column reads one of the texts
RowsReading(column, texts) ==
    {i \in 1..df.nrows :
        Cell(df, column, i).k = "str" /\ Cell(df, column, i).s \in texts}

\* C24: the participation rate of the selected activity is the weight of the
\* rows answering yes over the weight of the rows answering yes or no (the
\* answers the SI/NO normalization accepts), times 100; rows with another value
\* or none are in neither sum.
C24_RateOverEligibleRows ==
    (pc = "actividades" /\ ~IsException(vista.participation_rate)) =>
        LET eligible == RowsReading(vista.activity_col, YesTexts \cup NoTexts)
            yes == RowsReading(vista.activity_col, YesTexts)
            r == vista.participation_rate
        IN  IF eligible = {} THEN r.num = 0
            ELSE r.num * SumSet(Weights, eligible) = 100 * SumSet(Weights, yes) * r.den

(***************************************************************************)
(* analizar_duplicados(df): complete and partial duplicates.               *)
(***************************************************************************)
DupRows == 5

\* df.duplicated(subset).sum() with keep='first': the rows that agree with an
\* earlier row on every column of the subset (missing cells agree with
\* missing cells)
duplicated(t, subset) ==
    {i \in 1..t.nrows :
        \E j \in 1..(i - 1) :
            \A name \in subset :
                GetColumn(t, name).cells[i] = GetColumn(t, name).cells[j]}

variables_clave_posibles ==
    <<"EDAD", "SEXO", "NIVEL EDUCATIVO", "ETNIA", "ESTRATO",
      "DEPARTAMENTO", "MUNICIPIO", "ZONA", "P2">>

\* [var for var in variables_clave_posibles if var in df.columns]
variables_clave_existentes(t) ==
    SelectSeq(variables_clave_posibles, LAMBDA var : HasColumn(t, var))

\* porcentaje >= 20
PorcentajeDesde20(duplicados, n) == 100 * duplicados >= 20 * n

\* porcentaje = (duplicados_parciales / len(df)) * 100; porcentaje > 20.  The
\* floating-point product compares with 20 as the exact quotient does.
PorcentajeMayorQue20(duplicados, n) == 100 * duplicados > 20 * n

analizar_duplicados(t) ==
    LET duplicados_completos == Cardinality(duplicated(t, ColumnNames(t)))
        claves == variables_clave_existentes(t)
        duplicados_parciales ==
            IF Len(claves) >= 2
            THEN Cardinality(duplicated(t, SeqToSet(claves)))
            ELSE 0
    IN  [duplicados_completos |-> duplicados_completos,
         duplicados_parciales |-> duplicados_parciales,
         variables_clave_encontradas |-> claves,
         recomendaciones |->
            (IF duplicados_completos > 0
             THEN <<Msg("critico", "duplicados_completos", duplicados_completos)>>
             ELSE <<Msg("ok", "sin_duplicados_completos", 0)>>)
            \o
            (IF Len(claves) >= 2
             THEN IF duplicados_parciales > 0
                  THEN IF PorcentajeMayorQue20(duplicados_parciales, t.nrows)
                       THEN <<Msg("atencion", "parciales_atencion", duplicados_parciales)>>
                       ELSE <<Msg("info", "parciales_normal", duplicados_parciales)>>
                  ELSE <<Msg("ok", "sin_duplicados_parciales", 0)>>
             ELSE <<>>)]

(***************************************************************************)
(* The input tables of the duplicate analysis: 2 to DupRows rows, two key  *)
(* fields and an answer that tells complete duplicates from partial ones.  *)
(***************************************************************************)
DupTable(n, edad, sexo, p4) ==
    DataFrame(n, Present(<<ReadColumn("EDAD", edad), ReadColumn("SEXO", sexo),
                           ReadColumn("P4", p4)>>))

DupTables ==
    UNION {
        {DupTable(n, e, s, Alterna(n, Str("SI"), Str("NO"))) :
            e \in [1..n -> {Num(20), Num(30)}],
            s \in [1..n -> {Str("Hombre"), Str("Mujer")}]}
        \cup {DupTable(n, e, <<>>, Fixed(n, Str("SI"))) :
            e \in [1..n -> {Num(20), Num(30)}]}
        : n \in 2..DupRows}

DupInputs == {NoFile} \cup {[found |-> TRUE, table |-> t] : t \in DupTables}

InitDuplicados ==
    /\ pc = "inicio"
    /\ data \in DupInputs
    /\ df = EmptyDataFrame
    /\ msgs = <<>>
    /\ umbral_na = UmbralDefault
    /\ df_limpio = EmptyDataFrame
    /\ info_limpieza = NoInfo
    /\ vista = NoVista

\* page "Limpieza de Datos": info_duplicados = analizar_duplicados(df), whether
\* the cleaning button was pressed or not
AnalizarDuplicados ==
    /\ pc \in {"pagina", "limpio"}
    /\ vista' = [pagina |-> "limpieza", info_duplicados |-> analizar_duplicados(df)]
    /\ pc' = "duplicados"
    /\ UNCHANGED <<data, df, msgs, umbral_na, df_limpio, info_limpieza>>

NextDuplicados == Cargar \/ Detener \/ MostrarPagina \/ AnalizarDuplicados

SpecDuplicados == InitDuplicados /\ [][NextDuplicados]_vars

(***************************************************************************)
(* Properties of the duplicate analysis (checked under SpecDuplicados).    *)
(***************************************************************************)
\* the candidate key fields of the loaded table
KeyFields == {name \in SeqToSet(variables_clave_posibles) : HasColumn(df, name)}

\* the rows of the loaded table that repeat an earlier row on every key field
PartialDuplicates ==
    {i \in 1..df.nrows :
        \E j \in 1..df.nrows :
            /\ j < i
            /\ \A name \in KeyFields : Cell(df, name, i) = Cell(df, name, j)}

\* the analysis ran on a table with two key fields and some partial duplicate
PartialRateReported ==
    /\ pc = "duplicados"
    /\ Cardinality(KeyFields) >= 2
    /\ PartialDuplicates # {}

Recomienda(clave) == HasMsg(vista.info_duplicados.recomendaciones, clave)

\* C25 as stated: with two or more key fields and a positive partial-duplicate
\* count, the rate is reported as ATENCION when the partial duplicates are 20%
\* of the rows or more (exactly 20% included) and as informational below 20%.
C25_TwentyOrMoreIsAttention ==
    PartialRateReported =>
        /\ Recomienda("parciales_atencion")
            <=> 100 * Cardinality(PartialDuplicates) >= 20 * df.nrows
        /\ Recomienda("parciales_normal")
            <=> 100 * Cardinality(PartialDuplicates) < 20 * df.nrows

\* C25 amended: with two or more key fields and a positive partial-duplicate
\* count, the rate is reported as ATENCION when the partial duplicates are
\* strictly more than 20% of the rows and as informational when they are 20%
\* of the rows or less; the count reported is the number of partial duplicates.
C25_AboveTwentyIsAttention ==
    PartialRateReported =>
        /\ vista.info_duplicados.duplicados_parciales = Cardinality(PartialDuplicates)
        /\ Recomienda("parciales_atencion")
            <=> 100 * Cardinality(PartialDuplicates) > 20 * df.nrows
        /\ Recomienda("parciales_normal")
            <=> 100 * Cardinality(PartialDuplicates) <= 20 * df.nrows

\* partial duplicates are exactly 20% of the rows and the report is informational
C25_Witness ==
    /\ PartialRateReported
    /\ 100 * Cardinality(PartialDuplicates) = 20 * df.nrows
    /\ Recomienda("parciales_normal")

(***************************************************************************)
(* Properties of the contingency table of cramers_v (checked under         *)
(* SpecAsoc).                                                              *)
(***************************************************************************)
\* the rows of the table that hold the value a of A and the value b of B
RowsOfPair(a, b) == {i \in PairedRows : Cell(df, "A", i) = a /\ Cell(df, "B", i) = b}

\* cramers_v was called with the weights
WeightedTableBuilt == pc = "cramers_v" /\ vista.weights # None

\* C26: in the weighted contingency table that cramers_v builds, the rows and
\* columns are the values of the rows that have both fields, every cell (a, b)
\* is the sum of the weights of the rows with x = a and y = b (0 when no row
\* has that pair, never the number of rows), and the total n is the sum of the
\* weights of the rows that have both fields.
C26_CellsAreWeightSums ==
    WeightedTableBuilt =>
        LET ct == vista.crosstab
        IN  /\ ct.index = {Cell(df, "A", i) : i \in PairedRows}
            /\ ct.columns = {Cell(df, "B", i) : i \in PairedRows}
            /\ \A a \in ct.index, b \in ct.columns :
                ct.cell[<<a, b>>] = Num(SumSet(Weights, RowsOfPair(a, b)))
            /\ Total(ct) = SumSet(Weights, PairedRows)

\* the categories of A and of B among the rows that have both fields
CategoriesA == {Cell(df, "A", i) : i \in PairedRows}
CategoriesB == {Cell(df, "B", i) : i \in PairedRows}

\* the weighted table of the spec: the weight of each pair, of each row and
\* column of the table, and the total
Observed(a, b) == SumSet(Weights, RowsOfPair(a, b))
RowTotal(a) == SumSet(Weights, {i \in PairedRows : Cell(df, "A", i) = a})
ColTotal(b) == SumSet(Weights, {i \in PairedRows : Cell(df, "B", i) = b})
TotalWeight == SumSet(Weights, PairedRows)

\* k = min(rows - 1, cols - 1)
MinDim ==
    LET r == Cardinality(CategoriesA) - 1
        c == Cardinality(CategoriesB) - 1
    IN  IF r < c THEN r ELSE c

\* every expected frequency RowTotal * ColTotal / TotalWeight is positive
ExpectedPositive ==
    /\ \A a \in CategoriesA : RowTotal(a) > 0
    /\ \A b \in CategoriesB : ColTotal(b) > 0

\* the product of every row total and every column total
TotalsProduct ==
    ProductOver([a \in CategoriesA |-> RowTotal(a)], CategoriesA)
    * ProductOver([b \in CategoriesB |-> ColTotal(b)], CategoriesB)

\* the Pearson statistic, the sum over the cells of (observed - expected)^2 /
\* expected, is PearsonNum / (TotalWeight * TotalsProduct)
PearsonNum ==
    SumOver([p \in CategoriesA \X CategoriesB |->
                LET d == TotalWeight * Observed(p[1], p[2]) - RowTotal(p[1]) * ColTotal(p[2])
                IN  d * d * (TotalsProduct \div (RowTotal(p[1]) * ColTotal(p[2])))],
            CategoriesA \X CategoriesB)

RECURSIVE GCD(_, _)
GCD(a, b) == IF b = 0 THEN a ELSE GCD(b, a % b)

\* a / b = c / d, for b > 0 and d > 0
SameFraction(a, b, c, d) ==
    /\ a \div GCD(a, b) = c \div GCD(c, d)
    /\ b \div GCD(a, b) = d \div GCD(c, d)

\* the value v of cramers_v is min(1, sqrt(num / den))
IsClampedRoot(v, num, den) ==
    /\ v.k = "sqrt"
    /\ IF num > den THEN SameFraction(v.num, v.den, 1, 1)
       ELSE SameFraction(v.num, v.den, num, den)

\* C27: for every weighted table with k >= 1 and n > 0 on which the Pearson
\* statistic is defined, of any shape, 2x2 included, cramers_v returns
\* min(1, sqrt(chi2 / (n * k))) with chi2 the Pearson chi-square statistic of
\* the table, n its total weight and k = min(rows - 1, cols - 1).
C27_PearsonCramersV ==
    (WeightedTableBuilt /\ MinDim >= 1 /\ TotalWeight > 0 /\ ExpectedPositive) =>
        IsClampedRoot(vista.assoc_value, PearsonNum,
                      TotalWeight * TotalsProduct * TotalWeight * MinDim)

(***************************************************************************)
(* Page "Participacion Cultural", association matrix: the selection of the *)
(* variables and the matrix.                                               *)
(***************************************************************************)
SelRows == 11

\* df[var].notna().sum() > 10
MinObservaciones == 10

\* len(valid_vars) > 10, var_info[:10]
MaxVariables == 10

\* col.lower().startswith('asistencia')
EsAsistencia(col) ==
    col \in {"ASISTENCIA BIBLIOTECA", "ASISTENCIA CASAS DE CULTURA",
             "ASISTENCIA CENTROS CUTURALES", "ASISTENCIA MUSEOS",
             "ASISTENCIA EXPOSICIONES", "ASISTENCIA MONUMENTOS", "ASISTENCIA CURSOS",
             "asistencia_biblioteca_num", "asistencia_casas_de_cultura_num",
             "asistencia_centros_cuturales_num", "asistencia_museos_num",
             "asistencia_exposiciones_num", "asistencia_monumentos_num",
             "asistencia_cursos_num"}

\* any(x in col.lower() for x in ['p3', 'p4', 'p5']) and not
\* col.lower().endswith('_num')
EsFrecuencia(col) == col \in {"P3", "P4", "P5"}

\* 'practica' in col.lower() and 'cultural' in col.lower()
EsPractica(col) == col \in {"PRACTICA CULTURAL"}

\* 'lectura' in col.lower() and not col.lower().endswith('_num')
EsLectura(col) == col \in {"LECTURA LIBROS"}

\* df.columns
ColumnSeq(t) == [i \in DOMAIN t.columns |-> t.columns[i].name]

\* the list the four extend calls build, each name once
CandidateList(t) ==
    LET names == ColumnSeq(t)
        all == SelectSeq(names, EsAsistencia) \o SelectSeq(names, EsFrecuencia)
               \o SelectSeq(names, EsPractica) \o SelectSeq(names, EsLectura)
        once == unique([i \in DOMAIN all |-> Str(all[i])])
    IN  [i \in DOMAIN once |-> once[i].s]

Rotate(q, r) == [i \in DOMAIN q |-> q[((i + r - 1) % Len(q)) + 1]]

Reverse(q) == [i \in DOMAIN q |-> q[Len(q) + 1 - i]]

\* list(set(names)): the names in the iteration order of a set of strings,
\* which follows their hashes in this process and not the table.  Of the orders
\* a process can produce the model takes the list order, its reverse and the
\* rotations of both.
SetOrders(names) ==
    IF names = <<>> THEN {<<>>}
    ELSE {Rotate(names, r) : r \in 0..(Len(names) - 1)}
         \cup {Rotate(Reverse(names), r) : r \in 0..(Len(names) - 1)}

\* df[var].nunique(): the distinct values, missing ones left out
nunique(cells) == Cardinality({cells[i] : i \in {j \in DOMAIN cells : ~isnull(cells[j])}})

\* df[var].notna().sum()
notna_sum(cells) == Len(cells) - CountNull(cells)

\* var_info.sort(key=lambda x: x[1], reverse=True): a stable sort, the variables
\* of equal nunique stay in the order of the list
RECURSIVE SortByVariation(_, _)
SortByVariation(t, variables) ==
    IF variables = <<>> THEN <<>>
    ELSE LET init == SortByVariation(t, SubSeq(variables, 1, Len(variables) - 1))
             var == variables[Len(variables)]
             k == Cardinality({i \in DOMAIN init :
                      nunique(GetColumn(t, init[i]).cells) >= nunique(GetColumn(t, var).cells)})
         IN  SubSeq(init, 1, k) \o <<var>> \o SubSeq(init, k + 1, Len(init))

NoMatrix == [pagina |-> "asociaciones", mostrada |-> FALSE, valid_vars |-> <<>>,
             association_matrix |-> <<>>]

\* the section from cultural_categorical_vars to association_matrix, for the
\* order of list(set(...))
MatrizAsociaciones(t, cultural_categorical_vars) ==
    IF Len(cultural_categorical_vars) >= 2
    THEN LET con_variacion(var) ==
                 /\ nunique(GetColumn(t, var).cells) > 1
                 /\ notna_sum(GetColumn(t, var).cells) > MinObservaciones
             valid_vars == SelectSeq(cultural_categorical_vars, con_variacion)
             limited == IF Len(valid_vars) > MaxVariables
                        THEN SubSeq(SortByVariation(t, valid_vars), 1, MaxVariables)
                        ELSE valid_vars
         IN  IF Len(valid_vars) >= 2
             THEN [pagina |-> "asociaciones", mostrada |-> TRUE, valid_vars |-> limited,
                   association_matrix |->
                       calculate_association_matrix(t, limited, <<FACTOR>>)]
             ELSE NoMatrix
    ELSE NoMatrix

(***************************************************************************)
(* The input tables of the association section: eleven candidate fields,   *)
(* or three.                                                               *)
(***************************************************************************)
\* one value; two values; three values; two values in the first ten rows only
UnValor(n) == Fixed(n, Str("NS"))
DosValores(n) == Alterna(n, Str("SI"), Str("NS"))
TresValores(n) == [i \in 1..n |-> Str(<<"SI", "NO", "NS">>[((i - 1) % 3) + 1])]
PocasObservaciones(n) ==
    [i \in 1..n |-> IF i <= MinObservaciones THEN DosValores(n)[i] ELSE NA]

Variaciones(n) == {UnValor(n), DosValores(n), TresValores(n), PocasObservaciones(n)}

\* eleven candidate fields, the first, the tenth and the last of any variation
SelTablesOnce ==
    {DataFrame(SelRows, <<
        ReadColumn(FACTOR, Fixed(SelRows, Num(1))),
        ReadColumn("ASISTENCIA BIBLIOTECA", a),
        ReadColumn("ASISTENCIA CASAS DE CULTURA", TresValores(SelRows)),
        ReadColumn("ASISTENCIA CENTROS CUTURALES", TresValores(SelRows)),
        ReadColumn("ASISTENCIA MUSEOS", TresValores(SelRows)),
        ReadColumn("ASISTENCIA EXPOSICIONES", TresValores(SelRows)),
        ReadColumn("ASISTENCIA MONUMENTOS", TresValores(SelRows)),
        ReadColumn("ASISTENCIA CURSOS", TresValores(SelRows)),
        ReadColumn("P3", TresValores(SelRows)),
        ReadColumn("P4", TresValores(SelRows)),
        ReadColumn("P5", p),
        ReadColumn("LECTURA LIBROS", l)>>) :
        a \in Variaciones(SelRows), p \in Variaciones(SelRows), l \in Variaciones(SelRows)}

\* up to three candidate fields; a field of SI and NO gets its numeric companion
SelTablesTres ==
    {DataFrame(SelRows, Present(<<
        ReadColumn(FACTOR, Fixed(SelRows, Num(1))),
        ReadColumn("ASISTENCIA BIBLIOTECA", a),
        ReadColumn("P3", p),
        ReadColumn("LECTURA LIBROS", l)>>)) :
        a \in Variaciones(SelRows) \cup {Alterna(SelRows, Str("SI"), Str("NO"))},
        p \in OrAbsent(Variaciones(SelRows)),
        l \in OrAbsent(Variaciones(SelRows))}

SelInputs == {NoFile} \cup {[found |-> TRUE, table |-> t] : t \in SelTablesOnce \cup SelTablesTres}

InitSeleccion ==
    /\ pc = "inicio"
    /\ data \in SelInputs
    /\ df = EmptyDataFrame
    /\ msgs = <<>>
    /\ umbral_na = UmbralDefault
    /\ df_limpio = EmptyDataFrame
    /\ info_limpieza = NoInfo
    /\ vista = NoVista

\* page "Participacion Cultural": the association matrix of the loaded table
PaginaAsociaciones ==
    /\ pc = "pagina"
    /\ \E cultural_categorical_vars \in SetOrders(CandidateList(df)) :
        vista' = MatrizAsociaciones(df, cultural_categorical_vars)
    /\ pc' = "asociaciones"
    /\ UNCHANGED <<data, df, msgs, umbral_na, df_limpio, info_limpieza>>

NextSeleccion == Cargar \/ Detener \/ MostrarPagina \/ PaginaAsociaciones

SpecSeleccion == InitSeleccion /\ [][NextSeleccion]_vars

(***************************************************************************)
(* Properties of the variable selection (checked under SpecSeleccion).     *)
(***************************************************************************)
\* the candidate fields of the loaded table, in column order
Candidates ==
    SelectSeq(ColumnSeq(df),
              LAMBDA col : EsAsistencia(col) \/ EsFrecuencia(col)
                           \/ EsPractica(col) \/ EsLectura(col))

DistinctValues(col) ==
    Cardinality({Cell(df, col, i) : i \in 1..df.nrows} \ {NA})

Observations(col) ==
    Cardinality({i \in 1..df.nrows : Cell(df, col, i) # NA})

\* the candidates with at least 2 distinct values and more than 10 observations
Eligible ==
    SelectSeq(Candidates,
              LAMBDA col : DistinctValues(col) >= 2 /\ Observations(col) > 10)

\* col comes before other among the eligible fields: more distinct values, or
\* as many and an earlier column
Precedes(col, other) ==
    \/ DistinctValues(col) > DistinctValues(other)
    \/ /\ DistinctValues(col) = DistinctValues(other)
       /\ Position(col) < Position(other)

\* the eligible fields, or the 10 that come first when there are more than 10
ClaimedSelection ==
    IF Len(Eligible) <= 10 THEN SeqToSet(Eligible)
    ELSE {col \in SeqToSet(Eligible) :
             Cardinality({other \in SeqToSet(Eligible) : Precedes(other, col)}) < 10}

\* C28: the fields of the association matrix are the candidate fields with at
\* least 2 distinct values and more than 10 non-missing observations; when more
\* than 10 remain they are the 10 with the most distinct values, ties broken by
\* column order; the selection is a function of the table and has at most 10
\* fields.
C28_SelectionByVariation ==
    (pc = "asociaciones" /\ vista.mostrada) =>
        /\ SeqToSet(vista.valid_vars) = ClaimedSelection
        /\ Len(vista.valid_vars) <= 10

(***************************************************************************)
(* Page "Analisis Demografico": the filters and the population pyramid.    *)
(***************************************************************************)
Todos == Str("Todos")

\* ['Todos'] + sorted(df[column].dropna().unique().tolist())
FilterOptions(t, column) ==
    {Todos} \cup {c \in SeqToSet(GetColumn(t, column).cells) : ~isnull(c)}

\* filtered_df[filtered_df[column] == value]: the rows holding the value, in order
FilterEq(t, column, value) ==
    LET cells == GetColumn(t, column).cells
        rows == SelectSeq([r \in 1..t.nrows |-> r], LAMBDA r : cells[r] = value)
    IN  DataFrame(Len(rows),
                  [c \in DOMAIN t.columns |->
                      Column(t.columns[c].name, t.columns[c].dtype,
                             [r \in DOMAIN rows |-> t.columns[c].cells[rows[r]]])])

\* filtered_df = df.copy() and the three filters
filtered_df(t, selected_gender, selected_education, selected_ethnicity) ==
    LET f1 == IF selected_gender # Todos THEN FilterEq(t, "SEXO", selected_gender) ELSE t
        f2 == IF selected_education # Todos
              THEN FilterEq(f1, "NIVEL EDUCATIVO", selected_education) ELSE f1
    IN  IF selected_ethnicity # Todos THEN FilterEq(f2, "ETNIA", selected_ethnicity) ELSE f2

\* 'HOMBRE' in filtered_df['SEXO'].values and not
\* filtered_df[filtered_df['SEXO'] == 'HOMBRE']['grupo_edad'].isna().all()
has_gender(t, gender) ==
    /\ Str(gender) \in SeqToSet(GetColumn(t, "SEXO").cells)
    /\ ~AllNull(GetColumn(FilterEq(t, "SEXO", Str(gender)), "grupo_edad").cells)

\* filtered_df[filtered_df['SEXO'] == gender].groupby('grupo_edad')
\* ['FACTOR DE EXPANSION'].sum(): the weight of every age group, or pd.Series()
pyramid_data(t, gender) ==
    IF has_gender(t, gender)
    THEN LET g == FilterEq(t, "SEXO", Str(gender))
             edad == GetColumn(g, "grupo_edad").cells
             w == GetColumn(g, FACTOR).cells
         IN  [j \in DOMAIN EdadLabels |->
                 WeightSum(w, [i \in DOMAIN w |-> edad[i] = Str(EdadLabels[j])], 1)]
    ELSE <<>>

\* the page up to the pyramid: a column the page reads and the table lacks ends
\* it with a KeyError
AnalisisDemografico(t, selected_gender, selected_education, selected_ethnicity) ==
    LET f == filtered_df(t, selected_gender, selected_education, selected_ethnicity)
    IN  IF Str("HOMBRE") \in SeqToSet(GetColumn(f, "SEXO").cells)
           \/ Str("MUJER") \in SeqToSet(GetColumn(f, "SEXO").cells)
        THEN IF ~HasColumn(f, "grupo_edad")
             THEN [pagina |-> "demografico", raised |-> TRUE, error |-> "grupo_edad"]
             ELSE [pagina |-> "demografico", raised |-> FALSE, error |-> "",
                   filtered_df |-> f,
                   men_data |-> pyramid_data(f, "HOMBRE"),
                   women_data |-> pyramid_data(f, "MUJER")]
        ELSE [pagina |-> "demografico", raised |-> FALSE, error |-> "",
              filtered_df |-> f, men_data |-> <<>>, women_data |-> <<>>]

\* elif page == "Analisis Demografico"
PaginaDemografico ==
    /\ pc = "pagina"
    /\ IF \E column \in {"SEXO", "NIVEL EDUCATIVO", "ETNIA"} : ~HasColumn(df, column)
       THEN vista' = [pagina |-> "demografico", raised |-> TRUE,
                      error |-> IF ~HasColumn(df, "SEXO") THEN "SEXO"
                                ELSE IF ~HasColumn(df, "NIVEL EDUCATIVO")
                                THEN "NIVEL EDUCATIVO" ELSE "ETNIA"]
       ELSE \E selected_gender \in FilterOptions(df, "SEXO"),
               selected_education \in FilterOptions(df, "NIVEL EDUCATIVO"),
               selected_ethnicity \in FilterOptions(df, "ETNIA") :
                vista' = AnalisisDemografico(df, selected_gender, selected_education,
                                             selected_ethnicity)
    /\ pc' = "demografico"
    /\ UNCHANGED <<data, df, msgs, umbral_na, df_limpio, info_limpieza>>

(***************************************************************************)
(* The script as a whole: every run loads the table and shows one page;    *)
(* an interaction runs the script again from the top.                      *)
(***************************************************************************)
AppTable(n, edad, sexo, etnia, lectura) ==
    DataFrame(n, Present(<<
        ReadColumn(FACTOR, Fixed(n, Num(2))), ReadColumn("EDAD", edad),
        ReadColumn("SEXO", sexo),
        ReadColumn("NIVEL EDUCATIVO", Alterna(n, Str("Primaria"), Str("Superior"))),
        ReadColumn("ETNIA", etnia), ReadColumn("LECTURA LIBROS", lectura),
        ReadColumn("P3", Fixed(n, Num(1))),
        ReadColumn("P4", Alterna(n, Str("SI"), Str("NO")))>>))

AppTables ==
    {AppTable(NRows, e, s, n, l) :
        e \in {Alterna(NRows, Num(10), Num(30)), Alterna(NRows, NA, Num(30))},
        s \in Cols({NA, Str("HOMBRE"), Str("MUJER")}),
        n \in OrAbsent({Fixed(NRows, Str("Ninguna"))}),
        l \in {Alterna(NRows, Str("SI"), Str("NO")), Alterna(NRows, Str("SI"), NA)}}

\* tables with enough rows for the association matrix
AppTablesMatriz ==
    {DataFrame(SelRows, <<
        ReadColumn(FACTOR, Fixed(SelRows, Num(1))),
        ReadColumn("SEXO", s),
        ReadColumn("NIVEL EDUCATIVO", Fixed(SelRows, Str("Primaria"))),
        ReadColumn("ETNIA", Fixed(SelRows, Str("Ninguna"))),
        ReadColumn("ASISTENCIA BIBLIOTECA", TresValores(SelRows)),
        ReadColumn("P3", DosValores(SelRows)),
        ReadColumn("LECTURA LIBROS", DosValores(SelRows))>>) :
        s \in {Alterna(SelRows, Str("HOMBRE"), Str("MUJER")),
               Alterna(SelRows, Str("HOMBRE"), NA)}}

AppInputs ==
    {NoFile} \cup {[found |-> TRUE, table |-> t] : t \in AppTables \cup AppTablesMatriz}

InitApp ==
    /\ pc = "inicio"
    /\ data \in AppInputs
    /\ df = EmptyDataFrame
    /\ msgs = <<>>
    /\ umbral_na = UmbralDefault
    /\ df_limpio = EmptyDataFrame
    /\ info_limpieza = NoInfo
    /\ vista = NoVista

\* a widget changes: the script runs again from the top; the slider keeps its
\* value, everything the script assigned is gone
Reiniciar ==
    /\ pc \in {"limpio", "duplicados", "resumen", "demografico", "asociaciones",
               "actividades"}
    /\ pc' = "inicio"
    /\ df' = EmptyDataFrame
    /\ msgs' = <<>>
    /\ df_limpio' = EmptyDataFrame
    /\ info_limpieza' = NoInfo
    /\ vista' = NoVista
    /\ UNCHANGED <<data, umbral_na>>

NextApp ==
    \/ Cargar \/ Detener \/ MostrarPagina
    \/ AplicarLimpieza \/ AnalizarDuplicados
    \/ PaginaResumen \/ PaginaDemografico \/ PaginaAsociaciones \/ PaginaActividades
    \/ Reiniciar

SpecApp == InitApp /\ [][NextApp]_vars

(***************************************************************************)
(* Properties of the script as a whole (checked under SpecApp).            *)
(***************************************************************************)
\* a page has shown weighted aggregates or an association matrix of the table
AggregatesShown ==
    \/ pc \in {"resumen", "demografico", "actividades"} /\ ~vista.raised
    \/ pc = "asociaciones" /\ vista.mostrada

\* the cleaning stage ran in this run of the script
CleaningRan == info_limpieza # NoInfo

\* the table is as the cleaning stage leaves a table: cleaning it changes nothing
PassedCleaning == limpiar_datos_categoricos(df, umbral_na).df_limpio = df

\* C29: in every run the stages execute in the order load, cleaning, derivation,
\* aggregation: whenever a page shows a weighted aggregate or an association
\* matrix, the cleaning stage has run before in that run and the table the
\* page computes from is a cleaned table.
C29_AggregatesFromCleanedTable ==
    AggregatesShown => CleaningRan /\ PassedCleaning

\* C30: once load_and_process_data has returned, the shared table stays, cell
\* by cell and column by column, the table it returned, whatever ran since:
\* the cleaning, the duplicate analysis, the filters and aggregates of a page,
\* cramers_v and the association matrix.
C30_SharedTableUnchanged ==
    pc # "inicio" => df = load_and_process_data(data).df

\* the cleaning and the duplicate analysis have run, the cleaned copy differs
\* from the shared table
C30_Witness ==
    /\ pc = "duplicados"
    /\ CleaningRan
    /\ df_limpio # df
    /\ df = load_and_process_data(data).df

====
